---- MODULE Spec2Model ----
(***************************************************************************)
(* PocketBase MCP server: the session store keyed by base URL, credential  *)
(* precedence of the tools, the authentication service, the client-side    *)
(* administrator gate of the collection service, and the error taxonomy.   *)
(*                                                                         *)
(* Strings that the code inspects character by character (base URLs) are   *)
(* sequences of one-character strings.  Messages, which the code only      *)
(* searches for fixed substrings after lower-casing, are the set of those  *)
(* substrings they contain.  JavaScript objects are functions from keys to *)
(* values.  undefined and "" are both falsy and the code only tests        *)
(* truthiness of baseUrl / adminToken / env values, so both are the empty  *)
(* string (the empty sequence for a URL).                                  *)
(***************************************************************************)
EXTENDS Integers, Sequences, FiniteSets, TLC

VARIABLES
    clientStore,   \* tools.ts clientStore: normalized URL -> handle reference
    heap,          \* the PocketBase client objects the store refers to
    env,           \* process.env: POCKETBASE_URL, POCKETBASE_ADMIN_TOKEN
    last           \* what the last finished operation was given and returned

vars == <<clientStore, heap, env, last>>

-----------------------------------------------------------------------------
(* Error taxonomy: error-handler.ts                                        *)

ErrorCode ==
    {"AUTH_REQUIRED", "AUTH_INVALID", "AUTH_EXPIRED", "FORBIDDEN",
     "VALIDATION_ERROR", "NOT_FOUND", "NETWORK_ERROR", "SERVER_ERROR",
     "RATE_LIMITED", "UNKNOWN_ERROR"}

\* err.status when the error carries none (undefined compares false with
\* every test the code makes: === 400, === 401, ..., >= 500)
NoStatus == 0

\* err.code when the error carries none
NoCode == "none"

\* the substrings the classifier searches the lower-cased message for
NetworkWords ==
    {"network", "fetch", "econnrefused", "connection refused", "timeout",
     "dns", "unreachable"}

RateLimitWords == {"rate limit", "too many requests"}

NotFoundWords == {"not found", "doesn't exist", "does not exist"}

AuthWords ==
    {"unauthorized", "unauthenticated", "authentication", "not authenticated",
     "invalid credentials", "token"}

AuthRequiredWords == {"not authenticated", "authentication required"}

\* message.includes(word), the message being the set of searched substrings
\* that occur in it
includes(message, word) == word \in message

\* occurs in every message but the empty one ("" and undefined are falsy)
AnyChar == "."

\* a set of substrings that some message has exactly: a message containing
\* "authentication required" contains "authentication", and one containing
\* anything is not empty
IsMessage(m) ==
    /\ ("authentication required" \in m) => ("authentication" \in m)
    /\ (m # {}) => (AnyChar \in m)

\* an error value: null/undefined (or any falsy value), a non-empty string,
\* or an object with the fields the error handler reads: status, code,
\* message, data and response.data (TRUE when an object), response.message
\* (TRUE when truthy)
ErrorObject(status, code, message, data, respData) ==
    [kind |-> "object", status |-> status, code |-> code, message |-> message,
     data |-> data, respData |-> respData, respMessage |-> FALSE]

NullError == [kind |-> "null", status |-> NoStatus, code |-> NoCode,
              message |-> {}, data |-> FALSE, respData |-> FALSE,
              respMessage |-> FALSE]

StringError == [kind |-> "string", status |-> NoStatus, code |-> NoCode,
                message |-> {}, data |-> FALSE, respData |-> FALSE,
                respMessage |-> FALSE]

\* the error object with a response.message besides
WithResponseMessage(error) == [error EXCEPT !.respMessage = TRUE]

isObject(error) == error.kind = "object"

isNetworkError(error) ==
    /\ isObject(error)
    /\ \/ error.code = "NETWORK_ERROR"
       \/ \E w \in NetworkWords : includes(error.message, w)

isRateLimitError(error) ==
    /\ isObject(error)
    /\ \/ error.status = 429
       \/ error.code = "RATE_LIMITED"
       \/ \E w \in RateLimitWords : includes(error.message, w)

isNotFoundError(error) ==
    /\ isObject(error)
    /\ \/ error.status = 404
       \/ error.code = "NOT_FOUND"
       \/ \E w \in NotFoundWords : includes(error.message, w)

isValidationError(error) ==
    /\ isObject(error)
    /\ \/ error.status = 400 /\ error.data
       \/ error.code = "VALIDATION_ERROR"
       \/ error.respData

isAuthErrorNo401(error) ==
    /\ isObject(error)
    /\ \/ error.status = 403
       \/ error.code \in {"AUTH_REQUIRED", "AUTH_INVALID", "AUTH_EXPIRED", "FORBIDDEN"}
       \/ \E w \in AuthWords : includes(error.message, w)

isAuthError(error) ==
    /\ isObject(error)
    /\ \/ error.status = 401 \/ error.status = 403
       \/ error.code \in {"AUTH_REQUIRED", "AUTH_INVALID", "AUTH_EXPIRED", "FORBIDDEN"}
       \/ \E w \in AuthWords : includes(error.message, w)

getErrorCodeMessageBeforeStatus(error) ==
    IF isNetworkError(error) THEN "NETWORK_ERROR"
    ELSE IF isRateLimitError(error) THEN "RATE_LIMITED"
    ELSE IF isNotFoundError(error) THEN "NOT_FOUND"
    ELSE IF isValidationError(error) THEN "VALIDATION_ERROR"
    ELSE IF isAuthError(error) THEN
        IF \E w \in AuthRequiredWords : includes(error.message, w)
        THEN "AUTH_REQUIRED"
        ELSE IF error.status = 403 \/ error.code = "FORBIDDEN" THEN "FORBIDDEN"
        ELSE IF error.code = "AUTH_EXPIRED" THEN "AUTH_EXPIRED"
        ELSE "AUTH_INVALID"
    ELSE IF isObject(error) /\ error.status >= 500 THEN "SERVER_ERROR"
    ELSE "UNKNOWN_ERROR"

getErrorCodeNotFoundFirst(error) ==
    IF isNetworkError(error) THEN "NETWORK_ERROR"
    ELSE IF isNotFoundError(error) THEN "NOT_FOUND"
    ELSE IF isRateLimitError(error) THEN "RATE_LIMITED"
    ELSE IF isValidationError(error) THEN "VALIDATION_ERROR"
    ELSE IF isAuthError(error) THEN
        IF error.status = 403 \/ error.code = "FORBIDDEN" THEN "FORBIDDEN"
        ELSE IF error.code = "AUTH_EXPIRED" THEN "AUTH_EXPIRED"
        ELSE IF \E w \in AuthRequiredWords : includes(error.message, w)
             THEN "AUTH_REQUIRED"
        ELSE "AUTH_INVALID"
    ELSE IF isObject(error) /\ error.status >= 500 THEN "SERVER_ERROR"
    ELSE "UNKNOWN_ERROR"

getErrorCode(error) ==
    IF isNetworkError(error) THEN "NETWORK_ERROR"
    ELSE IF isRateLimitError(error) THEN "RATE_LIMITED"
    ELSE IF isNotFoundError(error) THEN "NOT_FOUND"
    ELSE IF isValidationError(error) THEN "VALIDATION_ERROR"
    ELSE IF isAuthError(error) THEN
        IF error.status = 403 \/ error.code = "FORBIDDEN" THEN "FORBIDDEN"
        ELSE IF error.code = "AUTH_EXPIRED" THEN "AUTH_EXPIRED"
        ELSE IF \E w \in AuthRequiredWords : includes(error.message, w)
             THEN "AUTH_REQUIRED"
        ELSE "AUTH_INVALID"
    ELSE IF isObject(error) /\ error.status >= 500 THEN "SERVER_ERROR"
    ELSE "UNKNOWN_ERROR"

-----------------------------------------------------------------------------
(* Inputs of the classifier                                                *)

Statuses == {NoStatus, 200, 400, 401, 403, 404, 429, 500, 503}

Codes == {NoCode, "AUTH_ERROR"} \cup ErrorCode

\* one searched substring of each class, and both AUTH_REQUIRED phrases
MessageWords ==
    {AnyChar, "fetch", "rate limit", "not found", "token", "authentication",
     "authentication required", "not authenticated"}

Messages == {m \in SUBSET MessageWords : IsMessage(m)}

Errors ==
    {NullError, StringError} \cup
    {IF rm THEN WithResponseMessage(ErrorObject(s, c, m, d, r))
           ELSE ErrorObject(s, c, m, d, r) :
        s \in Statuses, c \in Codes, m \in Messages,
        d \in BOOLEAN, r \in BOOLEAN, rm \in BOOLEAN}

-----------------------------------------------------------------------------
(* Client factory: client-factory.ts                                       *)

\* how many trailing slashes a base URL is written with, at most
MaxSlashes == 2

SLASH == "/"

\* "http://127.0.0.1:8090"
DEFAULT_POCKETBASE_URL == <<"d">>

RECURSIVE normalizeUrlKeepOne(_)
normalizeUrlKeepOne(url) ==
    IF Len(url) > 1 /\ url[Len(url)] = SLASH /\ url[Len(url) - 1] = SLASH
    THEN normalizeUrlKeepOne(SubSeq(url, 1, Len(url) - 1))
    ELSE url

\* url.replace(/\/+$/, "")
RECURSIVE normalizeUrl(_)
normalizeUrl(url) ==
    IF url # <<>> /\ url[Len(url)] = SLASH
    THEN normalizeUrl(SubSeq(url, 1, Len(url) - 1))
    ELSE url

getPocketBaseUrl(explicitUrl) ==
    normalizeUrl(
        IF explicitUrl # <<>> THEN explicitUrl
        ELSE IF env.POCKETBASE_URL # <<>> THEN env.POCKETBASE_URL
        ELSE DEFAULT_POCKETBASE_URL)

\* authStore.record of a client that holds no identity
Null == [tag |-> "null"]

\* the SDK's authStore.isValid: the token is a well-formed, unexpired JWT
ValidTokens == {"A", "B", "C"}

isValid(pb) == pb.token \in ValidTokens

\* new PocketBase(url): an empty auth store of its own
NewPocketBase(url) == [baseUrl |-> url, token |-> "", record |-> Null]

authStoreSave(pb, token, record) == [pb EXCEPT !.token = token, !.record = record]

authStoreClearKeepToken(pb) == [pb EXCEPT !.record = Null]

authStoreClear(pb) == [pb EXCEPT !.token = "", !.record = Null]

createClient(baseUrl, adminToken, userToken) ==
    LET client == NewPocketBase(getPocketBaseUrl(baseUrl)) IN
    IF adminToken # "" THEN authStoreSave(client, adminToken, Null)
    ELSE IF userToken # "" THEN authStoreSave(client, userToken, Null)
    ELSE client

-----------------------------------------------------------------------------
(* Authentication service: auth-service.ts                                 *)

SUPERUSERS_COLLECTION == "_superusers"

\* JavaScript object spread {...base, ...over}: a later key wins
Spread(base, over) == over @@ base

Has(obj, key) == key \in DOMAIN obj

\* keys of the backend records below that start with "_"
UnderscoreKeys == {"_secret"}

systemFields ==
    {"id", "email", "verified", "collectionId", "collectionName", "created",
     "updated", "emailVisibility", "username"}

extractUserFields(record) ==
    LET keep == {k \in DOMAIN record : k \notin systemFields /\ k \notin UnderscoreKeys}
        userFields == [k \in keep |-> record[k]]
    IN  IF Has(record, "username")
        THEN Spread(userFields, [username |-> record["username"]])
        ELSE userFields

\* the user object authenticateAdmin returns for the backend's record
AdminUser(record) ==
    [id |-> record["id"], collectionName |-> SUPERUSERS_COLLECTION,
     email |-> record["email"], verified |-> TRUE, isAdmin |-> TRUE,
     created |-> record["created"], updated |-> record["updated"]]

\* the user object authenticateUser returns for the backend's record
UserUser(record) ==
    Spread(
        [id |-> record["id"], email |-> record["email"],
         verified |-> IF Has(record, "verified") THEN record["verified"] ELSE FALSE,
         isAdmin |-> FALSE,
         collectionId |-> record["collectionId"],
         collectionName |-> record["collectionName"],
         created |-> record["created"], updated |-> record["updated"]],
        extractUserFields(record))

\* createAuthError: the Error authenticateAdmin / authenticateUser throw
\* new Error(message) given a code, a status, details and an originalError
\* (NullError where the property is not set)
AuthError(status, code, message, details, originalError) ==
    [kind |-> "object", status |-> status, code |-> code, message |-> message,
     data |-> FALSE, respData |-> FALSE, respMessage |-> FALSE,
     details |-> details, originalError |-> originalError]

createAuthError(error) ==
    IF isObject(error) /\ (error.status = 400 \/ error.status = 401)
    THEN AuthError(error.status, "AUTH_INVALID",
                   IF error.message # {} THEN error.message
                   ELSE {AnyChar, "invalid credentials"},
                   error.data, NullError)
    ELSE IF isObject(error)
            /\ (includes(error.message, "fetch") \/ includes(error.message, "network"))
    THEN AuthError(NoStatus, "NETWORK_ERROR", {AnyChar}, FALSE, error)
    ELSE AuthError(NoStatus, "AUTH_ERROR",
                   IF isObject(error) /\ error.message # {} THEN error.message
                   ELSE {AnyChar, "authentication"},
                   FALSE, error)

logout(pb) == authStoreClear(pb)

isAuthenticated(pb) == isValid(pb)

getCurrentUser(pb) ==
    IF ~isValid(pb) THEN Null
    ELSE IF pb.record = Null THEN Null
    ELSE LET record == pb.record
             isAdmin == record["collectionName"] = SUPERUSERS_COLLECTION
         IN  Spread(
                [id |-> record["id"], email |-> record["email"], isAdmin |-> isAdmin,
                 verified |-> IF isAdmin THEN TRUE
                              ELSE IF Has(record, "verified") THEN record["verified"]
                              ELSE FALSE],
                IF isAdmin THEN <<>> ELSE extractUserFields(record))

\* getToken: null is the empty string here
getToken(pb) == IF ~isValid(pb) THEN "" ELSE pb.token

getAuthStatus(pb) ==
    [isAuthenticated |-> isAuthenticated(pb),
     user |-> getCurrentUser(pb),
     token |-> IF isAuthenticated(pb) THEN pb.token ELSE ""]

-----------------------------------------------------------------------------
(* Error envelopes: error-handler.ts                                       *)

\* a string of an envelope: a literal of the code (chars), or a string taken
\* from the error, known by the searched substrings it contains (words)
Literal(chars) == [chars |-> chars, words |-> {}]

Taken(words) == [chars |-> "", words |-> words]

\* getSuggestion: which of the eight suggestion strings
getSuggestion(error) ==
    IF isNetworkError(error) THEN "check-running"
    ELSE IF isAuthError(error) THEN
        IF error.status = 401 \/ error.code = "AUTH_REQUIRED" THEN "authenticate-first"
        ELSE IF error.status = 403 \/ error.code = "FORBIDDEN" THEN "no-permission"
        ELSE "check-credentials"
    ELSE IF isValidationError(error) THEN "check-fields"
    ELSE IF isNotFoundError(error) THEN "verify-exists"
    ELSE IF isRateLimitError(error) THEN "wait"
    ELSE "check-logs"

DefaultMessage == Literal("An unexpected error occurred")

\* the message getErrorMessage generates for a code
CannedMessage(code, defaultMessage) ==
    CASE code = "AUTH_REQUIRED" -> Literal("Authentication is required for this operation")
      [] code = "AUTH_INVALID" -> Literal("Invalid credentials provided")
      [] code = "AUTH_EXPIRED" -> Literal("Authentication token has expired")
      [] code = "FORBIDDEN" -> Literal("You do not have permission to perform this operation")
      [] code = "VALIDATION_ERROR" -> Literal("Validation failed for the provided data")
      [] code = "NOT_FOUND" -> Literal("The requested resource was not found")
      [] code = "NETWORK_ERROR" -> Literal("Unable to connect to PocketBase server")
      [] code = "SERVER_ERROR" -> Literal("PocketBase server encountered an error")
      [] code = "RATE_LIMITED" -> Literal("Too many requests - please try again later")
      [] OTHER -> defaultMessage

getErrorMessageNoFallback(error, defaultMessage) ==
    IF error.kind = "null" THEN defaultMessage
    ELSE Taken(error.message)

getErrorMessage(error, defaultMessage) ==
    IF error.kind = "null" THEN defaultMessage
    ELSE IF error.kind = "string" THEN Taken({AnyChar})
    ELSE IF error.message # {} THEN Taken(error.message)
    ELSE IF error.respMessage THEN Taken({AnyChar})
    ELSE CannedMessage(getErrorCode(error), defaultMessage)

\* extractValidationErrors: whether the payload yields field entries (the
\* payload objects here have an entry each; the entries are not modelled)
extractValidationErrors(error) == isObject(error) /\ (error.data \/ error.respData)

\* context of a handleError call that gives none
NoContext == ""

\* handleError: the envelope {success: false, error, code, suggestion,
\* details?}; error is the message after the context, details is absent
\* ("none"), {fields: [...]} ("fields"), err.data or err.response.data
handleError(error, context) ==
    LET code == getErrorCode(error) IN
    [success |-> FALSE,
     error |-> [context |-> context, text |-> getErrorMessage(error, DefaultMessage)],
     code |-> code,
     suggestion |-> getSuggestion(error),
     details |-> IF code = "VALIDATION_ERROR"
                 THEN (IF extractValidationErrors(error) THEN "fields" ELSE "none")
                 ELSE IF error.data THEN "data"
                 ELSE IF error.respData THEN "respData"
                 ELSE "none"]

\* createValidationError: the envelope of a client-side schema rejection
createValidationError(fieldErrors) ==
    [success |-> FALSE, code |-> "VALIDATION_ERROR", fields |-> fieldErrors]

\* an envelope caught as an error: it has a code, and no status, message,
\* data or response of its own
Thrown(envelope) == ErrorObject(NoStatus, envelope.code, {}, FALSE, FALSE)

-----------------------------------------------------------------------------
(* Collection service: collection-service.ts                               *)

MinNameLen == 3
MaxNameLen == 100

Letters ==
    {"a", "b", "c", "d", "e", "f", "g", "h", "i", "j", "k", "l", "m", "n", "o",
     "p", "q", "r", "s", "t", "u", "v", "w", "x", "y", "z",
     "A", "B", "C", "D", "E", "F", "G", "H", "I", "J", "K", "L", "M", "N", "O",
     "P", "Q", "R", "S", "T", "U", "V", "W", "X", "Y", "Z"}

Digits == {"0", "1", "2", "3", "4", "5", "6", "7", "8", "9"}

\* /^[a-zA-Z][a-zA-Z0-9_]*$/
IsIdentifier(name) ==
    /\ name # <<>>
    /\ name[1] \in Letters
    /\ \A i \in 2..Len(name) : name[i] \in Letters \cup Digits \cup {"_"}

VALID_FIELD_TYPES ==
    {"text", "number", "bool", "email", "url", "date", "select", "file",
     "relation", "json", "editor", "autodate"}

RESERVED_COLLECTION_NAMES ==
    {<<"_", "s", "u", "p", "e", "r", "u", "s", "e", "r", "s">>,
     <<"_", "a", "u", "t", "h", "O", "r", "i", "g", "i", "n", "s">>,
     <<"_", "e", "x", "t", "e", "r", "n", "a", "l", "A", "u", "t", "h", "s">>,
     <<"_", "m", "f", "a", "s">>,
     <<"_", "o", "t", "p", "s">>}

FieldError(field, code) == [field |-> field, code |-> code]

validateCollectionName(name) ==
    IF name = <<>> THEN <<FieldError(<<"name">>, "required")>>
    ELSE
        (IF Len(name) < MinNameLen
         THEN <<FieldError(<<"name">>, "min_length")>> ELSE <<>>)
        \o (IF Len(name) > MaxNameLen
            THEN <<FieldError(<<"name">>, "max_length")>> ELSE <<>>)
        \o (IF ~IsIdentifier(name)
            THEN <<FieldError(<<"name">>, "invalid_format")>> ELSE <<>>)
        \o (IF name \in RESERVED_COLLECTION_NAMES
            THEN <<FieldError(<<"name">>, "reserved")>> ELSE <<>>)

validateSchemaFieldFirstOnly(field, index) ==
    IF field.name = <<>>
    THEN <<FieldError(<<"schema", index, "name">>, "required")>>
    ELSE IF ~IsIdentifier(field.name)
    THEN <<FieldError(<<"schema", index, "name">>, "invalid_format")>>
    ELSE IF field.type = ""
    THEN <<FieldError(<<"schema", index, "type">>, "required")>>
    ELSE IF field.type \notin VALID_FIELD_TYPES
    THEN <<FieldError(<<"schema", index, "type">>, "invalid_type")>>
    ELSE IF field.required \notin {"true", "false"}
    THEN <<FieldError(<<"schema", index, "required">>, "invalid_type")>>
    ELSE <<>>

\* a field is [name, type, required]; required is "true" or "false" when it
\* is a boolean, type is "" when it is missing
validateSchemaField(field, index) ==
    (IF field.name = <<>>
     THEN <<FieldError(<<"schema", index, "name">>, "required")>>
     ELSE IF ~IsIdentifier(field.name)
     THEN <<FieldError(<<"schema", index, "name">>, "invalid_format")>>
     ELSE <<>>)
    \o (IF field.type = ""
        THEN <<FieldError(<<"schema", index, "type">>, "required")>>
        ELSE IF field.type \notin VALID_FIELD_TYPES
        THEN <<FieldError(<<"schema", index, "type">>, "invalid_type")>>
        ELSE <<>>)
    \o (IF field.required \notin {"true", "false"}
        THEN <<FieldError(<<"schema", index, "required">>, "invalid_type")>>
        ELSE <<>>)

\* schema.schema.forEach: the errors of fields[from..], fieldNames being the
\* names seen so far (indexes are 0-based in the reported paths)
RECURSIVE validateFields(_, _, _)
validateFields(fields, from, fieldNames) ==
    IF from > Len(fields) THEN <<>>
    ELSE LET field == fields[from] IN
         validateSchemaField(field, from - 1)
         \o (IF field.name # <<>> /\ field.name \in fieldNames
             THEN <<FieldError(<<"schema", from - 1, "name">>, "duplicate")>>
             ELSE <<>>)
         \o validateFields(fields, from + 1,
                           IF field.name # <<>> THEN fieldNames \cup {field.name}
                           ELSE fieldNames)

\* a schema is [name, type, isArray, fields, query]: isArray says that
\* schema.schema is an array (fields), query that options.query is truthy
validateCollectionSchema(schema) ==
    validateCollectionName(schema.name)
    \o (IF schema.type \notin {"base", "auth", "view"}
        THEN <<FieldError(<<"type">>, "invalid_type")>> ELSE <<>>)
    \o (IF schema.type = "view"
        THEN (IF ~schema.query
              THEN <<FieldError(<<"options.query">>, "required")>> ELSE <<>>)
        ELSE IF ~schema.isArray
        THEN <<FieldError(<<"schema">>, "required")>>
        ELSE validateFields(schema.fields, 1, {}))

\* the validation updateCollection makes of a partial schema: has is the set
\* of properties that are not undefined
validateCollectionUpdate(schema, has) ==
    (IF "name" \in has THEN validateCollectionName(schema.name) ELSE <<>>)
    \o (IF "type" \in has /\ schema.type \notin {"base", "auth", "view"}
        THEN <<FieldError(<<"type">>, "invalid_type")>> ELSE <<>>)
    \o (IF "schema" \in has
        THEN (IF ~schema.isArray
              THEN <<FieldError(<<"schema">>, "invalid_type")>>
              ELSE validateFields(schema.fields, 1, {}))
        ELSE <<>>)

isAdminAuthenticated(pb) ==
    IF pb.token = "" THEN FALSE
    ELSE IF pb.record # Null
    THEN \/ pb.record["collectionName"] = SUPERUSERS_COLLECTION
         \/ (Has(pb.record, "isAdmin") /\ pb.record["isAdmin"] = TRUE)
    ELSE pb.token # ""      \* pb.authStore.token.length > 0

\* the Error the administrator gate throws
AdminRequiredError ==
    ErrorObject(403, "FORBIDDEN",
                {AnyChar, "authentication", "authentication required"},
                FALSE, FALSE)

\* the TypeError of schema.schema.map when schema.schema is no array
TypeErrorNoMap == ErrorObject(NoStatus, NoCode, {AnyChar}, FALSE, FALSE)

\* no backend request was made
NoCall == "no-call"

\* what a service operation did: it returned or threw `thrown`, after
\* `calls` backend requests carrying the token `sent`
Returned(pb) == [threw |-> FALSE, thrown |-> NullError, calls |-> 1, sent |-> pb.token]

ThrewBefore(error) == [threw |-> TRUE, thrown |-> error, calls |-> 0, sent |-> NoCall]

\* a backend request through pb, answered by resp: the operation returns, or
\* throws handleError(error, context)
BackendCall(pb, resp) ==
    IF resp.ok THEN Returned(pb)
    ELSE [threw |-> TRUE, thrown |-> Thrown(handleError(resp.error, "Failed")),
          calls |-> 1, sent |-> pb.token]

\* listCollections, getCollection
readCollection(pb, resp) == BackendCall(pb, resp)

createCollectionValidateFirst(pb, schema, resp) ==
    IF validateCollectionSchema(schema) # <<>>
    THEN ThrewBefore(Thrown(createValidationError(validateCollectionSchema(schema))))
    ELSE IF ~isAdminAuthenticated(pb) THEN ThrewBefore(AdminRequiredError)
    ELSE IF ~schema.isArray THEN ThrewBefore(Thrown(handleError(TypeErrorNoMap, "Failed")))
    ELSE BackendCall(pb, resp)

createCollection(pb, schema, resp) ==
    IF ~isAdminAuthenticated(pb) THEN ThrewBefore(AdminRequiredError)
    ELSE IF validateCollectionSchema(schema) # <<>>
    THEN ThrewBefore(Thrown(createValidationError(validateCollectionSchema(schema))))
    ELSE IF ~schema.isArray THEN ThrewBefore(Thrown(handleError(TypeErrorNoMap, "Failed")))
    ELSE BackendCall(pb, resp)

updateCollection(pb, schema, has, resp) ==
    IF ~isAdminAuthenticated(pb) THEN ThrewBefore(AdminRequiredError)
    ELSE IF validateCollectionUpdate(schema, has) # <<>>
    THEN ThrewBefore(Thrown(createValidationError(validateCollectionUpdate(schema, has))))
    ELSE BackendCall(pb, resp)

deleteCollection(pb, resp) ==
    IF ~isAdminAuthenticated(pb) THEN ThrewBefore(AdminRequiredError)
    ELSE BackendCall(pb, resp)

-----------------------------------------------------------------------------
(* Session store and credential resolution: tools.ts                       *)

\* the Error getPocketBaseClient throws when it finds no token at all
\* ("PocketBase admin token is required. ...")
TokenRequiredError == ErrorObject(NoStatus, NoCode, {AnyChar, "token"}, FALSE, FALSE)

FreshRefShared(h) == 1

\* a reference no stored client has
FreshRef(h) == CHOOSE i \in 1..(Cardinality(DOMAIN h) + 1) :
                  /\ i \notin DOMAIN h
                  /\ \A j \in 1..(i - 1) : j \in DOMAIN h

\* the client objects the store still refers to
Reachable(store, h) == [r \in {store[u] : u \in DOMAIN store} |-> h[r]]

\* the client getPocketBaseClient hands to a collection service, or threw
getPocketBaseClient(adminToken, baseUrl) ==
    LET url == getPocketBaseUrl(baseUrl) IN
    IF adminToken # ""
    THEN [threw |-> FALSE, pb |-> authStoreSave(NewPocketBase(url), adminToken, Null)]
    ELSE IF url \in DOMAIN clientStore /\ isValid(heap[clientStore[url]])
    THEN [threw |-> FALSE, pb |-> heap[clientStore[url]]]
    ELSE IF env.POCKETBASE_ADMIN_TOKEN = ""
    THEN [threw |-> TRUE, pb |-> NewPocketBase(url)]
    ELSE [threw |-> FALSE,
          pb |-> authStoreSave(NewPocketBase(url), env.POCKETBASE_ADMIN_TOKEN, Null)]

\* getOrCreateClient: the store and heap it leaves, and the reference it returns
getOrCreateClient(baseUrl) ==
    LET url == getPocketBaseUrl(baseUrl) IN
    IF url \in DOMAIN clientStore
    THEN [store |-> clientStore, heap |-> heap, ref |-> clientStore[url]]
    ELSE LET ref == FreshRef(heap) IN
         [store |-> (url :> ref) @@ clientStore,
          heap |-> (ref :> createClient(url, "", "")) @@ heap,
          ref |-> ref]

\* the credential a record, user or custom-request tool leaves in the client
\* before it calls the service
overrideAuth(pb, adminToken) ==
    IF adminToken # "" THEN authStoreSave(pb, adminToken, Null)
    ELSE IF ~isValid(pb) /\ env.POCKETBASE_ADMIN_TOKEN # ""
    THEN authStoreSave(pb, env.POCKETBASE_ADMIN_TOKEN, Null)
    ELSE pb

\* the code of the envelope a tool returns
ToolCode(out) == IF out.threw THEN handleError(out.thrown, NoContext).code ELSE "OK"

-----------------------------------------------------------------------------
(* Inputs                                                                  *)

Slashes(k) == [i \in 1..k |-> SLASH]

Bases == {<<"h">>}

\* baseUrl as a tool is given it: absent, or a base with trailing slashes
RawUrls == {<<>>} \cup {b \o Slashes(k) : b \in Bases, k \in 0..MaxSlashes}

\* baseUrl as a tool that calls the backend, or authenticate_user, is given it
ToolUrls == {<<"h", "/">>}

\* baseUrl as authenticate_admin is given it: absent, or the one of ToolUrls
AdminUrls == {<<>>} \cup ToolUrls

EnvUrls == {<<>>, <<"h", "/">>}

EnvTokens == {"", "B"}

\* adminToken as a tool is given it: absent, a valid token, a malformed one
AdminTokens == {"", "C", "X"}

\* tokens the backend issues at login
IssuedTokens == {"A"}

BaseRecord(id, collection) ==
    [id |-> id, email |-> "e", collectionId |-> "c", collectionName |-> collection,
     created |-> "t", updated |-> "t"]

\* records of the _superusers collection
SuperuserRecords == {BaseRecord("su", SUPERUSERS_COLLECTION)}

\* records of an auth collection: verified, with extra fields; unverified,
\* with a field named isAdmin
UserRecords ==
    {Spread(BaseRecord("u1", "users"),
            [verified |-> TRUE, name |-> "n", _secret |-> "s"]),
     Spread(BaseRecord("u2", "users"), [isAdmin |-> TRUE])}

UserCollections == {"users"}

\* the records authWithPassword can return for a collection
RecordsOf(collection) ==
    IF collection = SUPERUSERS_COLLECTION THEN SuperuserRecords ELSE UserRecords

PlainError(status) == ErrorObject(status, NoCode, {AnyChar}, FALSE, FALSE)

BackendErrors == {PlainError(403)}

Ok == [ok |-> TRUE, error |-> NullError]

Failed(error) == [ok |-> FALSE, error |-> error]

Responses == {Ok} \cup {Failed(e) : e \in BackendErrors}

\* what a rejected login throws: the backend's 400
AuthErrors ==
    {PlainError(400), ErrorObject(NoStatus, NoCode, {AnyChar, "fetch"}, FALSE, FALSE)}

Field(name, type, required) == [name |-> name, type |-> type, required |-> required]

Schema(name, type, isArray, fields, query) ==
    [name |-> name, type |-> type, isArray |-> isArray, fields |-> fields,
     query |-> query]

ValidSchema ==
    Schema(<<"a", "b", "c">>, "base", TRUE, <<Field(<<"t">>, "text", "false")>>, FALSE)

\* a schema the tools' parameter check lets through and validateCollectionSchema
\* rejects: the name starts with a digit, a field type is unknown, a field
\* name is repeated
InvalidSchema ==
    Schema(<<"1", "b", "c">>, "base", TRUE,
           <<Field(<<"t">>, "text", "false"), Field(<<"t">>, "blob", "false")>>, FALSE)

Schemas == {ValidSchema, InvalidSchema}

\* the properties of the schema an updateCollection call defines: none (an
\* update of the access rules alone), or name, type and schema
Partials == {{}, {"name", "type", "schema"}}

\* list_collections stands for get_collection too: both only call the
\* backend through the resolved client
CollectionTools ==
    {"list_collections", "create_collection", "update_collection",
     "delete_collection"}

\* the tools that resolve their credential on the stored client, one of each
\* group: the five record tools, the five user tools and send_custom_request
\* share the same lines
RecordTools == {"list_records", "list_users", "send_custom_request"}

GroupOf(tool) ==
    IF tool \in CollectionTools THEN "collection"
    ELSE IF tool = "list_records" THEN "record"
    ELSE IF tool = "send_custom_request" THEN "custom"
    ELSE "user"

-----------------------------------------------------------------------------
(* The tools: tools.ts registerTools                                       *)

Init ==
    /\ clientStore = <<>>
    /\ heap = <<>>
    /\ env \in [POCKETBASE_URL : EnvUrls, POCKETBASE_ADMIN_TOKEN : EnvTokens]
    /\ last = [op |-> "init", group |-> "none"]

\* the token the client stored for url holds, "" when the store has none
StoredToken(url) ==
    IF url \in DOMAIN clientStore THEN heap[clientStore[url]].token ELSE ""

\* the details of the envelope a tool returns
ToolDetails(out) ==
    IF out.threw THEN handleError(out.thrown, NoContext).details ELSE "none"

\* what a tool call that resolved a credential was given and returned, the
\* token the stored client held when it was called, and the violations
\* schema validation finds in what it was given
CallResult(tool, baseUrl, adminToken, out, violations) ==
    [op |-> tool, group |-> GroupOf(tool),
     url |-> getPocketBaseUrl(baseUrl), adminToken |-> adminToken,
     before |-> StoredToken(getPocketBaseUrl(baseUrl)),
     sent |-> out.sent, calls |-> out.calls, code |-> ToolCode(out),
     details |-> ToolDetails(out), violations |-> violations]

\* list_collections, get_collection, create_collection, update_collection,
\* delete_collection
CollectionTool(tool, baseUrl, adminToken, schema, has, resp) ==
    LET client == getPocketBaseClient(adminToken, baseUrl)
        pb == client.pb
        out == IF client.threw THEN ThrewBefore(TokenRequiredError)
               ELSE IF tool = "create_collection" THEN createCollection(pb, schema, resp)
               ELSE IF tool = "update_collection" THEN updateCollection(pb, schema, has, resp)
               ELSE IF tool = "delete_collection" THEN deleteCollection(pb, resp)
               ELSE readCollection(pb, resp)
        violations ==
            IF tool = "create_collection" THEN validateCollectionSchema(schema)
            ELSE IF tool = "update_collection" THEN validateCollectionUpdate(schema, has)
            ELSE <<>>
    IN  /\ last' = CallResult(tool, baseUrl, adminToken, out, violations)
        /\ UNCHANGED <<clientStore, heap, env>>

\* the record tools, the user tools and send_custom_request
RecordTool(tool, baseUrl, adminToken, resp) ==
    LET got == getOrCreateClient(baseUrl)
        pb == overrideAuth(got.heap[got.ref], adminToken)
        out == BackendCall(pb, resp)
    IN  /\ clientStore' = got.store
        /\ heap' = [got.heap EXCEPT ![got.ref] = pb]
        /\ last' = CallResult(tool, baseUrl, adminToken, out, <<>>)
        /\ UNCHANGED env

StoreSetKeep(url, pb) == [store |-> clientStore, heap |-> heap]

\* the store after clientStore.set(url, pb) and the heap that goes with it:
\* the client url had, if any, is garbage from here on
StoreSet(url, pb) ==
    LET others == [u \in DOMAIN clientStore \ {url} |-> clientStore[u]]
        ref == FreshRef(Reachable(others, heap))
        store == (url :> ref) @@ others
    IN  [store |-> store, heap |-> Reachable(store, (ref :> pb) @@ heap)]

AuthenticateSaveAlways(tool, baseUrl, collection, saveSession, resp, token, record) ==
    LET url == getPocketBaseUrl(baseUrl)
        user == IF ~resp.ok THEN Null
                ELSE IF tool = "authenticate_admin" THEN AdminUser(record)
                ELSE UserUser(record)
        saved == StoreSet(url, authStoreSave(createClient(url, "", ""), token, user))
    IN  /\ IF saveSession
           THEN clientStore' = saved.store /\ heap' = saved.heap
           ELSE UNCHANGED <<clientStore, heap>>
        /\ last' = [op |-> tool, group |-> "auth", url |-> url,
                    saveSession |-> saveSession,
                    code |-> IF resp.ok THEN "OK"
                             ELSE handleError(createAuthError(resp.error), NoContext).code,
                    token |-> IF resp.ok THEN token ELSE "",
                    user |-> IF resp.ok THEN user ELSE Null,
                    sessionSaved |-> resp.ok /\ saveSession]
        /\ UNCHANGED env

\* authenticate_admin, authenticate_user: the backend answers the login on
\* a client of its own with resp, or with a token and a record
Authenticate(tool, baseUrl, collection, saveSession, resp, token, record) ==
    LET url == getPocketBaseUrl(baseUrl)
        user == IF ~resp.ok THEN Null
                ELSE IF tool = "authenticate_admin" THEN AdminUser(record)
                ELSE UserUser(record)
        saved == StoreSet(url, authStoreSave(createClient(url, "", ""), token, user))
    IN  /\ IF resp.ok /\ saveSession
           THEN clientStore' = saved.store /\ heap' = saved.heap
           ELSE UNCHANGED <<clientStore, heap>>
        /\ last' = [op |-> tool, group |-> "auth", url |-> url,
                    saveSession |-> saveSession,
                    code |-> IF resp.ok THEN "OK"
                             ELSE handleError(createAuthError(resp.error), NoContext).code,
                    token |-> IF resp.ok THEN token ELSE "",
                    user |-> IF resp.ok THEN user ELSE Null,
                    sessionSaved |-> resp.ok /\ saveSession]
        /\ UNCHANGED env

AuthenticateAdminTool ==
    \E baseUrl \in AdminUrls, saveSession \in BOOLEAN,
       resp \in {Ok} \cup {Failed(e) : e \in AuthErrors} :
        \E token \in IF resp.ok THEN IssuedTokens ELSE {""} :
            \E record \in IF resp.ok THEN SuperuserRecords ELSE {Null} :
                Authenticate("authenticate_admin", baseUrl, SUPERUSERS_COLLECTION,
                             saveSession, resp, token, record)

AuthenticateUserTool ==
    \E baseUrl \in ToolUrls, collection \in UserCollections, saveSession \in BOOLEAN,
       resp \in {Ok} \cup {Failed(e) : e \in AuthErrors} :
        \E token \in IF resp.ok THEN IssuedTokens ELSE {""} :
            \E record \in IF resp.ok THEN RecordsOf(collection) ELSE {Null} :
                Authenticate("authenticate_user", baseUrl, collection,
                             saveSession, resp, token, record)

LogoutTool ==
    \E baseUrl \in RawUrls :
        LET got == getOrCreateClient(baseUrl)
            pb == got.heap[got.ref]
        IN  /\ clientStore' = got.store
            /\ heap' = [got.heap EXCEPT ![got.ref] = logout(pb)]
            /\ last' = [op |-> "logout", group |-> "auth", baseUrl |-> baseUrl,
                        url |-> getPocketBaseUrl(baseUrl), code |-> "OK",
                        wasAuthenticated |-> isAuthenticated(pb)]
            /\ UNCHANGED env

CheckAuthStatusTool ==
    \E baseUrl \in RawUrls :
        LET got == getOrCreateClient(baseUrl)
            status == getAuthStatus(got.heap[got.ref])
        IN  /\ clientStore' = got.store
            /\ heap' = got.heap
            /\ last' = [op |-> "check_auth_status", group |-> "auth",
                        baseUrl |-> baseUrl, url |-> getPocketBaseUrl(baseUrl),
                        code |-> "OK", isAuthenticated |-> status.isAuthenticated,
                        user |-> status.user, hasToken |-> status.token # ""]
            /\ UNCHANGED env

CollectionToolCall ==
    \E tool \in CollectionTools, baseUrl \in ToolUrls, adminToken \in AdminTokens,
       resp \in Responses :
        \E schema \in IF tool = "create_collection" THEN Schemas ELSE {InvalidSchema} :
            \E has \in IF tool = "update_collection" THEN Partials ELSE {{}} :
                CollectionTool(tool, baseUrl, adminToken, schema, has, resp)

RecordToolCall ==
    \E tool \in RecordTools, baseUrl \in ToolUrls, adminToken \in AdminTokens,
       resp \in Responses :
        RecordTool(tool, baseUrl, adminToken, resp)

\* createCollection, updateCollection, deleteCollection of the service layer
\* called with a client the store holds
CollectionServiceCall ==
    \E url \in DOMAIN clientStore,
       op \in {"createCollection", "updateCollection", "deleteCollection"},
       resp \in Responses :
      \E schema \in IF op = "createCollection" THEN Schemas ELSE {InvalidSchema} :
      \E has \in IF op = "updateCollection" THEN Partials ELSE {{}} :
        LET pb == heap[clientStore[url]]
            out == IF op = "createCollection" THEN createCollection(pb, schema, resp)
                   ELSE IF op = "updateCollection"
                   THEN updateCollection(pb, schema, has, resp)
                   ELSE deleteCollection(pb, resp)
        IN  /\ last' = [op |-> op, group |-> "service", url |-> url,
                        valid |-> IF op = "createCollection"
                                  THEN validateCollectionSchema(schema) = <<>>
                                  ELSE IF op = "updateCollection"
                                  THEN validateCollectionUpdate(schema, has) = <<>>
                                  ELSE TRUE,
                        sent |-> out.sent, calls |-> out.calls,
                        code |-> IF out.threw THEN out.thrown.code ELSE "OK"]
            /\ UNCHANGED <<clientStore, heap, env>>

Next ==
    \/ CollectionToolCall
    \/ RecordToolCall
    \/ AuthenticateAdminTool
    \/ AuthenticateUserTool
    \/ LogoutTool
    \/ CheckAuthStatusTool
    \/ CollectionServiceCall

Spec == Init /\ [][Next]_vars

-----------------------------------------------------------------------------
(* The classifier alone: an error value is drawn, getErrorCode is applied   *)

InitErr ==
    /\ clientStore = <<>>
    /\ heap = <<>>
    /\ env = [POCKETBASE_URL |-> <<>>, POCKETBASE_ADMIN_TOKEN |-> ""]
    /\ last \in {[op |-> "error", group |-> "none", error |-> e] : e \in Errors}

\* the context handleError is given: none, or the operation that failed
Contexts == {NoContext, "Failed"}

Classify ==
    /\ last.op = "error"
    /\ \E context \in Contexts :
        last' = [op |-> "getErrorCode", group |-> "none", error |-> last.error,
                 code |-> getErrorCode(last.error),
                 context |-> context,
                 envelope |-> handleError(last.error, context)]
    /\ UNCHANGED <<clientStore, heap, env>>

NextErr == Classify

SpecErr == InitErr /\ [][NextErr]_vars

\* listCollections whose backend call fails with last.error, under the
\* list_collections tool: the service throws handleError(error, context),
\* the tool's catch hands what it caught to handleError again
listCollectionsThrows(error) == handleError(error, "Failed")

list_collections(error) == handleError(Thrown(listCollectionsThrows(error)), NoContext)

ListCollectionsFails ==
    /\ last.op = "error"
    /\ last' = [op |-> "list_collections", group |-> "collection", error |-> last.error,
                service |-> listCollectionsThrows(last.error),
                envelope |-> list_collections(last.error)]
    /\ UNCHANGED <<clientStore, heap, env>>

NextList == ListCollectionsFails

SpecList == InitErr /\ [][NextList]_vars

-----------------------------------------------------------------------------
(* Schema validation alone: a schema is drawn, validateCollectionSchema is  *)
(* applied                                                                  *)

MaxFields == 2

\* a name one character longer than the longest allowed
LongName == [i \in 1..(MaxNameLen + 1) |-> "a"]

\* collection names: missing, too short, well-formed, starting with a digit,
\* too short and starting with a digit, reserved, too long
SchemaNames ==
    {<<>>, <<"a", "b">>, <<"a", "b", "c">>, <<"1", "b", "c">>, <<"1">>,
     <<"_", "o", "t", "p", "s">>, LongName}

\* collection types: two allowed ones, an unknown one
SchemaTypes == {"base", "auth", "bogus"}

\* field names: missing, well-formed, starting with a digit
FieldNames == {<<>>, <<"t">>, <<"9">>}

\* field types: missing, allowed, not allowed
FieldTypes == {"", "text", "blob"}

\* the required flag: a boolean, or something else
RequiredFlags == {"true", "none"}

SchemaFields ==
    {Field(n, t, r) : n \in FieldNames, t \in FieldTypes, r \in RequiredFlags}

FieldLists ==
    UNION {[1..k -> SchemaFields] : k \in 0..MaxFields}

SchemaInputs ==
    {Schema(n, t, TRUE, fs, FALSE) :
        n \in SchemaNames, t \in SchemaTypes, fs \in FieldLists}
    \cup {Schema(n, t, FALSE, <<>>, FALSE) : n \in SchemaNames, t \in SchemaTypes}
    \cup {Schema(n, "view", a, <<>>, q) :
            n \in SchemaNames, a \in BOOLEAN, q \in BOOLEAN}

InitSchema ==
    /\ clientStore = <<>>
    /\ heap = <<>>
    /\ env = [POCKETBASE_URL |-> <<>>, POCKETBASE_ADMIN_TOKEN |-> ""]
    /\ last \in {[op |-> "schema", group |-> "none", schema |-> s] :
                    s \in SchemaInputs}

Validate ==
    /\ last.op = "schema"
    /\ last' = [op |-> "validateCollectionSchema", group |-> "none",
                schema |-> last.schema,
                errors |-> validateCollectionSchema(last.schema)]
    /\ UNCHANGED <<clientStore, heap, env>>

NextSchema == Validate

SpecSchema == InitSchema /\ [][NextSchema]_vars

-----------------------------------------------------------------------------
(* Login failures alone: what authWithPassword rejects with is drawn,       *)
(* createAuthError is applied                                               *)

FailureStatuses == {NoStatus, 400, 401, 403, 500}

\* searched substrings of a failure's message: the two createAuthError looks
\* for and one more that isNetworkError looks for
FailureWords == {AnyChar, "fetch", "network", "econnrefused"}

FailureMessages == {m \in SUBSET FailureWords : IsMessage(m)}

AuthFailures ==
    {NullError, StringError} \cup
    {ErrorObject(s, NoCode, m, d, FALSE) :
        s \in FailureStatuses, m \in FailureMessages, d \in BOOLEAN}

InitAuth ==
    /\ clientStore = <<>>
    /\ heap = <<>>
    /\ env = [POCKETBASE_URL |-> <<>>, POCKETBASE_ADMIN_TOKEN |-> ""]
    /\ last \in {[op |-> "failure", group |-> "none", error |-> e] :
                    e \in AuthFailures}

Raise ==
    /\ last.op = "failure"
    /\ last' = [op |-> "createAuthError", group |-> "none",
                error |-> last.error, raised |-> createAuthError(last.error)]
    /\ UNCHANGED <<clientStore, heap, env>>

NextAuth == Raise

SpecAuth == InitAuth /\ [][NextAuth]_vars

-----------------------------------------------------------------------------
(* Record and user services: record-service.ts, user-service.ts. The        *)
(* backend's answer to a read is drawn; the operation is applied            *)

\* obj[key], or default when obj has no such key (obj.key ?? default, and
\* obj.key || default for the values below)
Get(obj, key, default) == IF Has(obj, key) THEN obj[key] ELSE default

recordSystemFields ==
    {"id", "collectionId", "collectionName", "created", "updated", "expand"}

extractRecordFields(record) ==
    LET keep == {k \in DOMAIN record :
                    k \notin recordSystemFields /\ k \notin UnderscoreKeys}
        fields == [k \in keep |-> record[k]]
    IN  IF Has(record, "expand") /\ record["expand"] # ""
        THEN Spread(fields, [expand |-> record["expand"]])
        ELSE fields

transformRecord(record) ==
    Spread([id |-> record["id"], collectionId |-> record["collectionId"],
            collectionName |-> record["collectionName"],
            created |-> record["created"], updated |-> record["updated"]],
           extractRecordFields(record))

userSystemFields ==
    {"id", "collectionId", "collectionName", "email", "emailVisibility",
     "verified", "created", "updated", "expand"}

transformUser(record) ==
    LET keep == {k \in DOMAIN record :
                    k \notin userSystemFields /\ k \notin UnderscoreKeys}
        customFields == [k \in keep |-> record[k]]
    IN  Spread([id |-> record["id"], collectionId |-> record["collectionId"],
                collectionName |-> record["collectionName"],
                email |-> Get(record, "email", ""),
                emailVisibility |-> Get(record, "emailVisibility", FALSE),
                verified |-> Get(record, "verified", FALSE),
                created |-> record["created"], updated |-> record["updated"]],
               customFields)

\* what an operation hands its caller: the value it returns, or the value it
\* throws
Return(value) == [threw |-> FALSE, value |-> value]

Throw(value) == [threw |-> TRUE, value |-> value]

\* the response of a read: success and the item
Found(item) == [success |-> TRUE, item |-> item]

getRecordNullWhenNotFound(resp) ==
    IF resp.ok THEN Return(Found(transformRecord(resp.record)))
    ELSE IF resp.error.status = 404 THEN Return(Null)
    ELSE Throw(handleError(resp.error, "Failed"))

getRecord(resp) ==
    IF resp.ok THEN Return(Found(transformRecord(resp.record)))
    ELSE Throw(handleError(resp.error, "Failed"))

getFirstRecord(resp) ==
    IF resp.ok THEN Return(Found(transformRecord(resp.record)))
    ELSE IF resp.error.status = 404 THEN Return(Null)
    ELSE Throw(handleError(resp.error, "Failed"))

getUser(resp) ==
    IF resp.ok THEN Return(Found(transformUser(resp.record)))
    ELSE Throw(handleError(resp.error, "Failed"))

\* the fields a backend record may carry besides the five every record has:
\* a field of the collection, a field whose name starts with "_", the
\* expanded relations, and the email and verified flag of an auth record
OptionalFields ==
    [title |-> "n", _secret |-> "s", expand |-> "x", email |-> "e",
     verified |-> TRUE]

BackendRecords ==
    {Spread([id |-> "r1", collectionId |-> "c", collectionName |-> "posts",
             created |-> "t", updated |-> "t"],
            [k \in keys |-> OptionalFields[k]]) :
        keys \in SUBSET DOMAIN OptionalFields}

\* what a read fails with: no such record, no permission, a failing backend,
\* an unreachable backend, a rejected request
ReadErrors ==
    {PlainError(404), PlainError(403), PlainError(500),
     ErrorObject(NoStatus, NoCode, {AnyChar, "fetch"}, FALSE, FALSE),
     ErrorObject(400, NoCode, {AnyChar}, TRUE, FALSE)}

ReadResponses ==
    {[ok |-> TRUE, error |-> NullError, record |-> r] : r \in BackendRecords}
    \cup {[ok |-> FALSE, error |-> e, record |-> Null] : e \in ReadErrors}

InitRecord ==
    /\ clientStore = <<>>
    /\ heap = <<>>
    /\ env = [POCKETBASE_URL |-> <<>>, POCKETBASE_ADMIN_TOKEN |-> ""]
    /\ last \in {[op |-> "response", group |-> "none", resp |-> r] :
                    r \in ReadResponses}

\* what a finished read was answered and handed its caller
ReadResult(op, group, resp, threw, result) ==
    [op |-> op, group |-> group, resp |-> resp, threw |-> threw,
     result |-> result]

ServiceRead(op, out) ==
    /\ last.op = "response"
    /\ last' = ReadResult(op, "service", last.resp, out.threw, out.value)
    /\ UNCHANGED <<clientStore, heap, env>>

GetRecord == ServiceRead("getRecord", getRecord(last.resp))

GetFirstRecord == ServiceRead("getFirstRecord", getFirstRecord(last.resp))

GetUser == ServiceRead("getUser", getUser(last.resp))

\* get_record: the stored client is resolved and given the credential, the
\* record is read, and what getRecord throws is normalized and returned
GetRecordTool ==
    /\ last.op = "response"
    /\ \E baseUrl \in ToolUrls, adminToken \in {"", "C"} :
        LET got == getOrCreateClient(baseUrl)
            pb == overrideAuth(got.heap[got.ref], adminToken)
            out == getRecord(last.resp)
        IN  /\ clientStore' = got.store
            /\ heap' = [got.heap EXCEPT ![got.ref] = pb]
            /\ last' = ReadResult("get_record", "tool", last.resp, FALSE,
                                  IF out.threw
                                  THEN handleError(Thrown(out.value), NoContext)
                                  ELSE out.value)
            /\ UNCHANGED env

NextRecord == GetRecord \/ GetFirstRecord \/ GetUser \/ GetRecordTool

SpecRecord == InitRecord /\ [][NextRecord]_vars

-----------------------------------------------------------------------------
(* Collections against a backend that stores what it is given: the         *)
(* collections the backend holds are carried in last.backend               *)

\* pbSchema: the field definitions createCollection sends
pbSchema(fields) ==
    [i \in 1..Len(fields) |->
        [name |-> fields[i].name, type |-> fields[i].type,
         required |-> fields[i].required]]

\* collectionData: what createCollection sends; hasFields says that it has a
\* fields property, viewQuery is "" when it has none or an empty one
collectionData(schema) ==
    [name |-> schema.name, type |-> schema.type,
     hasFields |-> schema.type # "view",
     fields |-> IF schema.type = "view" THEN <<>> ELSE pbSchema(schema.fields),
     viewQuery |-> IF schema.type = "view" /\ schema.query THEN "q" ELSE ""]

transformCollection(collection) ==
    LET fields == IF collection.hasFields THEN collection.fields ELSE <<>> IN
    [name |-> collection.name, type |-> collection.type,
     schema |-> [i \in 1..Len(fields) |->
                    [name |-> fields[i].name, type |-> fields[i].type,
                     required |-> IF fields[i].required = "true"
                                  THEN "true" ELSE "false"]]]

\* the backend's answers: a create is refused when the name is taken, a
\* read or a delete when there is no such collection
CreateAnswer(backend, name) ==
    IF name \in DOMAIN backend
    THEN Failed(ErrorObject(400, NoCode, {AnyChar}, TRUE, FALSE))
    ELSE Ok

FindAnswer(backend, name) ==
    IF name \in DOMAIN backend THEN Ok ELSE Failed(PlainError(404))

CollectionNames == {<<"a", "b", "c">>, <<"x", "y", "z">>}

\* type, field list (or none) and query of the schemas given: base and auth
\* with zero to two fields, view with a query and with or without a field
\* list, and two that validation refuses
SchemaShapes ==
    {<<"base", TRUE, <<>>, FALSE>>,
     <<"base", TRUE, <<Field(<<"t">>, "text", "false")>>, FALSE>>,
     <<"auth", TRUE, <<Field(<<"t">>, "text", "true"),
                       Field(<<"u">>, "number", "false")>>, FALSE>>,
     <<"view", TRUE, <<>>, TRUE>>,
     <<"view", TRUE, <<Field(<<"t">>, "text", "false")>>, TRUE>>,
     <<"view", FALSE, <<>>, TRUE>>,
     <<"view", TRUE, <<>>, FALSE>>,
     <<"base", FALSE, <<>>, FALSE>>}

CollectionSchemas ==
    {Schema(n, h[1], h[2], h[3], h[4]) : n \in CollectionNames, h \in SchemaShapes}

\* the two surfaces: the service called with an administrator's client, the
\* tool called with an administrator's token
\* (the tool's parameters always have a field list)
Surfaces == {"service", "tool"}

\* the client a collection tool given adminToken "C" builds, which is also
\* the one the service is called with
AdminClient == getPocketBaseClient("C", <<"h">>).pb

SurfaceCode(surface, out) ==
    IF ~out.threw THEN "OK"
    ELSE IF surface = "tool" THEN handleError(out.thrown, NoContext).code
    ELSE out.thrown.code

InitColl ==
    /\ clientStore = <<>>
    /\ heap = <<>>
    /\ env = [POCKETBASE_URL |-> <<>>, POCKETBASE_ADMIN_TOKEN |-> ""]
    /\ last = [op |-> "init", group |-> "none", backend |-> <<>>]

CreateCollection ==
    \E schema \in CollectionSchemas :
      \E surface \in IF schema.isArray THEN Surfaces ELSE {"service"} :
        LET out == createCollection(AdminClient, schema,
                                    CreateAnswer(last.backend, schema.name))
            stored == IF out.threw THEN last.backend
                      ELSE (schema.name :> collectionData(schema)) @@ last.backend
        IN  /\ last' = [op |-> "createCollection", group |-> surface,
                        name |-> schema.name, schema |-> schema,
                        fresh |-> schema.name \notin DOMAIN last.backend,
                        code |-> SurfaceCode(surface, out), calls |-> out.calls,
                        collection |-> IF out.threw THEN Null
                                       ELSE transformCollection(stored[schema.name]),
                        backend |-> stored]
            /\ UNCHANGED <<clientStore, heap, env>>

GetCollection ==
    \E name \in CollectionNames, surface \in Surfaces :
        LET out == readCollection(AdminClient, FindAnswer(last.backend, name)) IN
        /\ last' = [op |-> "getCollection", group |-> surface, name |-> name,
                    code |-> SurfaceCode(surface, out),
                    collection |-> IF out.threw THEN Null
                                   ELSE transformCollection(last.backend[name]),
                    backend |-> last.backend]
        /\ UNCHANGED <<clientStore, heap, env>>

DeleteCollection ==
    \E name \in CollectionNames, surface \in Surfaces :
        LET out == deleteCollection(AdminClient, FindAnswer(last.backend, name)) IN
        /\ last' = [op |-> "deleteCollection", group |-> surface, name |-> name,
                    code |-> SurfaceCode(surface, out),
                    backend |-> IF out.threw THEN last.backend
                                ELSE [n \in DOMAIN last.backend \ {name} |->
                                        last.backend[n]]]
        /\ UNCHANGED <<clientStore, heap, env>>

NextColl == CreateCollection \/ GetCollection \/ DeleteCollection

SpecColl == InitColl /\ [][NextColl]_vars

-----------------------------------------------------------------------------
(* File utilities: file-utils.ts. A record and a filename are drawn; the    *)
(* URL operations are applied                                               *)

\* how many entries a file field holds, at most
MaxFiles == 2

FileErrorType ==
    {"FILE_NOT_FOUND", "INVALID_FILE_FIELD", "FILE_ACCESS_DENIED",
     "FILE_OPERATION_FAILED"}

\* JavaScript values of a filename or a file field: undefined, null, a
\* number, a string (its characters), an array (its items)
Undefined == [kind |-> "undefined", chars |-> <<>>]

NullValue == [kind |-> "null", chars |-> <<>>]

NumberValue == [kind |-> "number", chars |-> <<>>]

Str(chars) == [kind |-> "string", chars |-> chars]

ArrayOf(items) == [kind |-> "array", items |-> items]

SPACE == " "

RECURSIVE trimStart(_)
trimStart(chars) ==
    IF chars # <<>> /\ Head(chars) = SPACE THEN trimStart(Tail(chars)) ELSE chars

RECURSIVE trimEnd(_)
trimEnd(chars) ==
    IF chars # <<>> /\ chars[Len(chars)] = SPACE
    THEN trimEnd(SubSeq(chars, 1, Len(chars) - 1)) ELSE chars

trim(chars) == trimEnd(trimStart(chars))

\* /\.[a-zA-Z0-9]{2,5}$/
fileExtensionPattern(chars) ==
    \E k \in 2..5 :
        /\ Len(chars) > k
        /\ chars[Len(chars) - k] = "."
        /\ \A i \in (Len(chars) - k + 1)..Len(chars) : chars[i] \in Letters \cup Digits

\* createFileError: the suggestion is the one of the type
createFileError(type, message) ==
    [success |-> FALSE, error |-> message, code |-> type, suggestion |-> type]

\* handleFileError of a caught value that carries no status and no message
\* of its own, and code as its code
handleFileError(code, context) ==
    LET baseError == handleError(ErrorObject(NoStatus, code, {}, FALSE, FALSE), context) IN
    [success |-> FALSE, error |-> "normalized", code |-> baseError.code,
     suggestion |-> "file-hint"]

catchFileErrorAlwaysWrap(error, context) == handleFileError(error.code, context)

\* the catch of the three operations: an error with a file-specific code is
\* thrown on as it is, anything else goes through handleFileError
catchFileError(error, context) ==
    IF error.code \in FileErrorType THEN error
    ELSE handleFileError(error.code, context)

\* a record is [isNull, id, collectionId, f]: id and collectionId are "" when
\* missing, f is the value of its one field
InvalidRecord(record) ==
    record.isNull \/ record.id = "" \/ record.collectionId = ""

\* what an operation did: it returned, or threw error, after built calls of
\* pb.files.getURL
Built(n) == [threw |-> FALSE, error |-> Null, built |-> n]

Raised(error, n) == [threw |-> TRUE, error |-> error, built |-> n]

getFileUrl(record, filename) ==
    IF InvalidRecord(record)
    THEN Raised(catchFileError(createFileError("FILE_OPERATION_FAILED", "Invalid record"),
                               "Failed"), 0)
    ELSE IF filename.kind # "string" \/ trim(filename.chars) = <<>>
    THEN Raised(catchFileError(createFileError("FILE_NOT_FOUND", "Filename is required"),
                               "Failed"), 0)
    ELSE Built(1)

\* filenames.map / the for loops: getFileUrl for each filename in turn, up
\* to the first that throws
RECURSIVE urlsOf(_, _, _)
urlsOf(record, filenames, from) ==
    IF from > Len(filenames) THEN Built(Len(filenames))
    ELSE LET one == getFileUrl(record, filenames[from]) IN
         IF one.threw
         THEN Raised(catchFileError(one.error, "Failed"), from - 1)
         ELSE urlsOf(record, filenames, from + 1)

\* filenames: empty, blank, plain, padded with blanks, and three that are no
\* strings
FileNameValues ==
    {Str(<<>>), Str(<<SPACE, SPACE>>), Str(<<"a", ".", "p", "n", "g">>),
     Str(<<SPACE, "a", ".", "p", "n", "g", SPACE>>),
     Undefined, NullValue, NumberValue}

\* f && typeof f === "string"
NonEmptyStrings == {v \in FileNameValues : v.kind = "string" /\ v.chars # <<>>}

\* typeof f === "string"
Strings == {v \in FileNameValues : v.kind = "string"}

\* typeof f === "string" && fileExtensionPattern.test(f)
FileNames == {v \in FileNameValues : v.kind = "string" /\ fileExtensionPattern(v.chars)}

\* items.filter(keep), kept being the values keep accepts
RECURSIVE filter(_, _)
filter(items, kept) ==
    IF items = <<>> THEN <<>>
    ELSE (IF Head(items) \in kept THEN <<Head(items)>> ELSE <<>>)
         \o filter(Tail(items), kept)


getFieldFileUrls(record) ==
    IF InvalidRecord(record)
    THEN Raised(catchFileError(createFileError("FILE_OPERATION_FAILED", "Invalid record"),
                               "Failed"), 0)
    ELSE IF record.f.kind \in {"undefined", "null"}
    THEN Raised(catchFileError(createFileError("INVALID_FILE_FIELD", "Field does not exist"),
                               "Failed"), 0)
    ELSE urlsOf(record,
                IF record.f.kind = "array" THEN record.f.items
                ELSE filter(<<record.f>>, NonEmptyStrings),
                1)

\* the filenames detectFileFields finds in the record's field: named says
\* that the field was named as a file field
detectFileFields(record, named) ==
    IF record.isNull THEN <<>>
    ELSE IF named
    THEN (IF record.f.kind = "array" THEN filter(record.f.items, Strings)
          ELSE IF record.f.kind = "string" THEN <<record.f>>
          ELSE <<>>)
    ELSE (IF record.f.kind = "array" THEN filter(record.f.items, FileNames)
          ELSE IF record.f \in FileNames THEN <<record.f>>
          ELSE <<>>)

getAllFileUrls(record, named) ==
    IF InvalidRecord(record)
    THEN Raised(catchFileError(createFileError("FILE_OPERATION_FAILED", "Invalid record"),
                               "Failed"), 0)
    ELSE urlsOf(record, detectFileFields(record, named), 1)

FieldValues ==
    FileNameValues
    \cup {ArrayOf(items) : items \in UNION {[1..k -> FileNameValues \ {Undefined}] :
                                              k \in 0..MaxFiles}}

FileRecords ==
    {[isNull |-> n, id |-> i, collectionId |-> c, f |-> v] :
        n \in BOOLEAN, i \in {"", "r"}, c \in {"", "c"}, v \in FieldValues}

InitFile ==
    /\ clientStore = <<>>
    /\ heap = <<>>
    /\ env = [POCKETBASE_URL |-> <<>>, POCKETBASE_ADMIN_TOKEN |-> ""]
    /\ last \in {[op |-> "record", group |-> "none", record |-> r] :
                    r \in {r \in FileRecords : r.isNull => r.id = "" /\ r.collectionId = ""
                                                          /\ r.f = Undefined}}

FileResult(op, record, filename, out) ==
    [op |-> op, group |-> "file", record |-> record, filename |-> filename,
     threw |-> out.threw, error |-> out.error, built |-> out.built]

GetFileUrl ==
    /\ last.op = "record"
    /\ \E filename \in FileNameValues :
        last' = FileResult("getFileUrl", last.record, filename,
                           getFileUrl(last.record, filename))
    /\ UNCHANGED <<clientStore, heap, env>>

GetFieldFileUrls ==
    /\ last.op = "record"
    /\ last' = FileResult("getFieldFileUrls", last.record, Undefined,
                          getFieldFileUrls(last.record))
    /\ UNCHANGED <<clientStore, heap, env>>

GetAllFileUrls ==
    /\ last.op = "record"
    /\ \E named \in BOOLEAN :
        last' = FileResult(IF named THEN "getAllFileUrls(named)" ELSE "getAllFileUrls",
                           last.record, Undefined, getAllFileUrls(last.record, named))
    /\ UNCHANGED <<clientStore, heap, env>>

NextFile == GetFileUrl \/ GetFieldFileUrls \/ GetAllFileUrls

SpecFile == InitFile /\ [][NextFile]_vars

-----------------------------------------------------------------------------
(* Startup: index.ts startServer. The environment is drawn; startServer     *)
(* runs up to the login request it awaits, and from its answer to the end   *)

StartEmails == {"", "e"}

StartPasswords == {"", "p"}

\* POCKETBASE_ADMIN_TOKEN at startup: not set, a valid token (two), a
\* malformed one
StartTokens == {"", "B", "C", "X"}

\* what the login request of the startup fails with: a rejection of the
\* credentials, an unreachable backend, a backend that is failing
StartFailures ==
    {PlainError(400), ErrorObject(NoStatus, NoCode, {AnyChar, "fetch"}, FALSE, FALSE),
     PlainError(500)}

autoAuthenticateAdminAttemptsDespiteToken(environment) ==
    /\ environment.POCKETBASE_ADMIN_EMAIL # ""
    /\ environment.POCKETBASE_ADMIN_PASSWORD # ""

\* autoAuthenticateAdmin goes on to the login request: email and password are
\* set, and no token is
autoAuthenticateAdminAttempts(environment) ==
    /\ environment.POCKETBASE_ADMIN_EMAIL # ""
    /\ environment.POCKETBASE_ADMIN_PASSWORD # ""
    /\ environment.POCKETBASE_ADMIN_TOKEN = ""

\* what startServer has done: attempts counts the login requests sent, log
\* holds the lines written to the error stream, registered says that the
\* tools were registered, exited that process.exit(1) was called, raised is
\* the code of the error the login request threw
Startup(op, attempts, url, outcome, token, raised, log, registered) ==
    [op |-> op, group |-> "startup", attempts |-> attempts, url |-> url,
     outcome |-> outcome, token |-> token, raised |-> raised, log |-> log,
     registered |-> registered, exited |-> FALSE]

InitStart ==
    /\ clientStore = <<>>
    /\ heap = <<>>
    /\ env \in [POCKETBASE_URL : RawUrls, POCKETBASE_ADMIN_TOKEN : StartTokens,
                 POCKETBASE_ADMIN_EMAIL : StartEmails,
                 POCKETBASE_ADMIN_PASSWORD : StartPasswords]
    /\ last = Startup("boot", 0, <<>>, "none", "", NoCode, {}, FALSE)

\* startServer up to its first suspension: when autoAuthenticateAdmin
\* returns without a request the server is created and everything is
\* registered; otherwise the login request is sent and awaited
StartServer ==
    /\ last.op = "boot"
    /\ IF autoAuthenticateAdminAttempts(env)
       THEN last' = Startup("awaiting", last.attempts + 1,
                            getPocketBaseUrl(env.POCKETBASE_URL), "none", "",
                            NoCode, {"attempting"}, FALSE)
       ELSE IF env.POCKETBASE_ADMIN_EMAIL = "" \/ env.POCKETBASE_ADMIN_PASSWORD = ""
       THEN last' = Startup("ready", last.attempts, <<>>, "skipped", "",
                            NoCode, {"initialized"}, TRUE)
       ELSE last' = Startup("ready", last.attempts, <<>>, "token-set", "",
                            NoCode, {"already-set", "initialized"}, TRUE)
    /\ UNCHANGED <<clientStore, heap, env>>

\* the login request is answered: the token is stored in the environment, or
\* the failure is caught and logged; then the server is created and
\* everything is registered
AuthResponse ==
    /\ last.op = "awaiting"
    /\ \E resp \in {Ok} \cup {Failed(e) : e \in StartFailures} :
        \E token \in IF resp.ok THEN IssuedTokens ELSE {""} :
            IF resp.ok
            THEN /\ env' = [env EXCEPT !.POCKETBASE_ADMIN_TOKEN = token]
                 /\ last' = Startup("ready", last.attempts, last.url, "success",
                                    token, NoCode,
                                    last.log \cup {"success", "initialized"}, TRUE)
            ELSE /\ UNCHANGED env
                 /\ last' = Startup("ready", last.attempts, last.url, "failure",
                                    "", createAuthError(resp.error).code,
                                    last.log \cup {"failed", "unless-token",
                                                   "initialized"}, TRUE)
    /\ UNCHANGED <<clientStore, heap>>

NextStart == StartServer \/ AuthResponse

\* an awaited request is answered, and a continuation that can run does
SpecStart == InitStart /\ [][NextStart]_vars /\ WF_vars(NextStart)

-----------------------------------------------------------------------------
(* Two backend instances: the startup login, then tool calls addressed to   *)
(* either instance                                                          *)

InstanceUrls == {<<"h">>, <<"g">>}

\* the bearer token the instance at url issues at a login
TokenOf(url) == IF url = <<"h">> THEN "A" ELSE "B"

InstanceTokens == {TokenOf(u) : u \in InstanceUrls}

InitInstances ==
    /\ clientStore = <<>>
    /\ heap = <<>>
    /\ env \in [POCKETBASE_URL : InstanceUrls, POCKETBASE_ADMIN_TOKEN : {"", "C"},
                 POCKETBASE_ADMIN_EMAIL : {"", "e"}, POCKETBASE_ADMIN_PASSWORD : {"p"}]
    /\ last = [op |-> "init", group |-> "none"]

\* startServer: autoAuthenticateAdmin logs in at the instance of the
\* environment's URL and keeps the token it is issued in the environment;
\* no tool is registered before it has finished
StartupLogin ==
    /\ last.op = "init"
    /\ \E resp \in {Ok} \cup {Failed(e) : e \in StartFailures} :
        LET url == getPocketBaseUrl(env.POCKETBASE_URL)
            attempts == autoAuthenticateAdminAttempts(env)
        IN  /\ env' = IF attempts /\ resp.ok
                      THEN [env EXCEPT !.POCKETBASE_ADMIN_TOKEN = TokenOf(url)]
                      ELSE env
            /\ last' = [op |-> "startup", group |-> "startup", url |-> url,
                        loggedIn |-> attempts /\ resp.ok]
    /\ UNCHANGED <<clientStore, heap>>

InstanceAuthenticate ==
    /\ last.op # "init"
    /\ \E baseUrl \in InstanceUrls, saveSession \in BOOLEAN :
        \/ Authenticate("authenticate_admin", baseUrl, SUPERUSERS_COLLECTION, saveSession,
                        Ok, TokenOf(getPocketBaseUrl(baseUrl)),
                        BaseRecord("su", SUPERUSERS_COLLECTION))
        \/ \E record \in RecordsOf("users") :
            Authenticate("authenticate_user", baseUrl, "users", saveSession,
                         Ok, TokenOf(getPocketBaseUrl(baseUrl)), record)

InstanceRecordCall ==
    /\ last.op # "init"
    /\ \E baseUrl \in InstanceUrls, adminToken \in {"", "C"} :
        RecordTool("list_records", baseUrl, adminToken, Ok)

InstanceCollectionCall ==
    /\ last.op # "init"
    /\ \E baseUrl \in InstanceUrls, adminToken \in {"", "C"} :
        CollectionTool("list_collections", baseUrl, adminToken, InvalidSchema, {}, Ok)

InstanceLogout ==
    /\ last.op # "init"
    /\ \E baseUrl \in InstanceUrls :
        LET got == getOrCreateClient(baseUrl)
            pb == got.heap[got.ref]
        IN  /\ clientStore' = got.store
            /\ heap' = [got.heap EXCEPT ![got.ref] = logout(pb)]
            /\ last' = [op |-> "logout", group |-> "auth", baseUrl |-> baseUrl,
                        url |-> getPocketBaseUrl(baseUrl), code |-> "OK",
                        wasAuthenticated |-> isAuthenticated(pb)]
            /\ UNCHANGED env

NextInstances ==
    \/ StartupLogin
    \/ InstanceAuthenticate
    \/ InstanceRecordCall
    \/ InstanceCollectionCall
    \/ InstanceLogout

SpecInstances == InitInstances /\ [][NextInstances]_vars

-----------------------------------------------------------------------------
(* Concurrent dispatch on one base URL: an invocation runs from its start   *)
(* to its await and, once the awaited request is answered, from there to    *)
(* its return; the runs of different invocations interleave                 *)

\* how many invocations are dispatched, at most
MaxCalls == 3

SharedUrl == <<"h">>

\* an invocation that is suspended at its await: selected is the token its
\* handle held when the request was made
Flight(id, tool, adminToken, saveSession, selected) ==
    [id |-> id, tool |-> tool, adminToken |-> adminToken, saveSession |-> saveSession,
     selected |-> selected]

\* what the last run did: flight holds the suspended invocations, stale the
\* authenticate invocations that were suspended when logout last ran, next
\* the identity of the next invocation
Ran(op, group, id, sent, flight, stale, next) ==
    [op |-> op, group |-> group, url |-> SharedUrl, id |-> id, sent |-> sent,
     flight |-> flight, stale |-> stale, next |-> next]

InitShared ==
    /\ clientStore = <<>>
    /\ heap = <<>>
    /\ env \in [POCKETBASE_URL : {<<>>}, POCKETBASE_ADMIN_TOKEN : EnvTokens]
    /\ last = Ran("init", "none", 0, NoCall, {}, {}, 1)

tokenOfRequestAtResponse(selected, stored) == stored

\* the token the request of listRecords carries: getList is called, and
\* the request made, in the run that selected the credential; stored is the
\* token the handle holds when the answer arrives
tokenOfRequest(selected, stored) == selected

\* list_records up to its await: the handle is taken from the store, the
\* credential is selected and left in it, the request is made
ListRecordsStart ==
    /\ last.next <= MaxCalls
    /\ \E adminToken \in {"", "C"} :
        LET got == getOrCreateClient(SharedUrl)
            pb == overrideAuth(got.heap[got.ref], adminToken)
        IN  /\ clientStore' = got.store
            /\ heap' = [got.heap EXCEPT ![got.ref] = pb]
            /\ last' = Ran("list_records", "record", last.next, NoCall,
                           last.flight \cup {Flight(last.next, "list_records", adminToken,
                                                    FALSE, pb.token)},
                           last.stale, last.next + 1)
    /\ UNCHANGED env

\* list_records from its await on: the answer is formatted and returned
ListRecordsReturn ==
    /\ \E f \in last.flight :
        /\ f.tool = "list_records"
        /\ last' = Ran("list_records:return", "record", f.id,
                       tokenOfRequest(f.selected, StoredToken(SharedUrl)),
                       last.flight \ {f}, last.stale, last.next)
    /\ UNCHANGED <<clientStore, heap, env>>

\* authenticate_admin up to its await: authenticateAdmin makes a client of
\* its own and sends the login request
AuthenticateStart ==
    /\ last.next <= MaxCalls
    /\ \E saveSession \in BOOLEAN :
        last' = Ran("authenticate_admin", "auth", last.next, NoCall,
                    last.flight \cup {Flight(last.next, "authenticate_admin", "",
                                             saveSession, "")},
                    last.stale, last.next + 1)
    /\ UNCHANGED <<clientStore, heap, env>>

\* authenticate_admin from its await on: a login that succeeded is saved in
\* the store when saveSession is set; a failure is normalized and returned
AuthenticateReturn ==
    /\ \E f \in last.flight, resp \in {Ok} \cup {Failed(e) : e \in AuthErrors} :
        LET saved == StoreSet(SharedUrl,
                              authStoreSave(createClient(SharedUrl, "", ""), "A",
                                            AdminUser(BaseRecord("su", SUPERUSERS_COLLECTION))))
        IN  /\ f.tool = "authenticate_admin"
            /\ IF resp.ok /\ f.saveSession
               THEN clientStore' = saved.store /\ heap' = saved.heap
               ELSE UNCHANGED <<clientStore, heap>>
            /\ last' = Ran(IF resp.ok /\ f.saveSession THEN "authenticate_admin:saved"
                           ELSE IF resp.ok THEN "authenticate_admin:return"
                           ELSE "authenticate_admin:failed",
                           "auth", f.id, NoCall, last.flight \ {f},
                           last.stale, last.next)
    /\ UNCHANGED env

\* logout has no await: it runs from start to return
LogoutRun ==
    /\ last.next <= MaxCalls
    /\ LET got == getOrCreateClient(SharedUrl)
       IN  /\ clientStore' = got.store
           /\ heap' = [got.heap EXCEPT ![got.ref] = logout(got.heap[got.ref])]
           /\ last' = Ran("logout", "auth", last.next, NoCall, last.flight,
                          {f.id : f \in {g \in last.flight : g.tool = "authenticate_admin"}},
                          last.next + 1)
    /\ UNCHANGED env

\* check_auth_status has no await either
CheckAuthStatusRun ==
    /\ last.next <= MaxCalls
    /\ LET got == getOrCreateClient(SharedUrl)
       IN  /\ clientStore' = got.store
           /\ heap' = got.heap
           /\ last' = Ran(IF getAuthStatus(got.heap[got.ref]).isAuthenticated
                          THEN "check_auth_status:true" ELSE "check_auth_status:false",
                          "auth", last.next, NoCall, last.flight, last.stale,
                          last.next + 1)
    /\ UNCHANGED env

NextShared ==
    \/ ListRecordsStart
    \/ ListRecordsReturn
    \/ AuthenticateStart
    \/ AuthenticateReturn
    \/ LogoutRun
    \/ CheckAuthStatusRun

SpecShared == InitShared /\ [][NextShared]_vars

-----------------------------------------------------------------------------
(* Properties                                                              *)

CallGroups == {"collection", "record", "user", "custom"}

AuthTools == {"authenticate_admin", "authenticate_user"}

\* l records a tool call that resolved a credential
IsCall(l) == l.group \in CallGroups

\* the client the store holds for url
Stored(url) == heap[clientStore[url]]

\* a call sends its explicit token; without one, the stored token if that is
\* valid; otherwise the environment token, if there is one
C1_Rule ==
    (IsCall(last') /\ last'.calls = 1) =>
        IF last'.adminToken # "" THEN last'.sent = last'.adminToken
        ELSE IF last'.before \in ValidTokens THEN last'.sent = last'.before
        ELSE (env.POCKETBASE_ADMIN_TOKEN # "" => last'.sent = env.POCKETBASE_ADMIN_TOKEN)

\* session token A stored for u, environment token B, a call with explicit
\* token C: the following call without explicit token sends A
C1_Following ==
    (/\ IsCall(last) /\ last.adminToken = "C" /\ last.before = "A"
     /\ env.POCKETBASE_ADMIN_TOKEN = "B"
     /\ IsCall(last') /\ last'.url = last.url
     /\ last'.adminToken = "" /\ last'.calls = 1)
    => last'.sent = "A"

\* after logout(u) a call without explicit token sends environment token B
C1_AfterLogout ==
    (/\ last.op = "logout" /\ env.POCKETBASE_ADMIN_TOKEN = "B"
     /\ IsCall(last') /\ last'.url = last.url
     /\ last'.adminToken = "" /\ last'.calls = 1)
    => last'.sent = "B"

\* C1: credential precedence over any sequence of tool calls on one base URL:
\* every call of every tool group sends the explicit adminToken if supplied,
\* else the valid token of the stored handle, else the environment token; with
\* session A stored and environment B, a call with explicit C sends C, the
\* following call without explicit token sends A, and after logout a call
\* without explicit token sends B.
C1_CredentialPrecedence == [][C1_Rule /\ C1_Following /\ C1_AfterLogout]_vars

\* C1: a record-group call without explicit token has sent C, the explicit
\* token an earlier call left in the stored handle.
C1_SessionReplaced ==
    /\ last.group = "record"
    /\ last.adminToken = "" /\ last.before = "C" /\ last.sent = "C"
    /\ env.POCKETBASE_ADMIN_TOKEN = "B"

\* a call with an explicit adminToken leaves the handle stored for its URL as
\* it was
C2_HandleKept ==
    (/\ IsCall(last') /\ last'.adminToken # ""
     /\ last'.url \in DOMAIN clientStore)
    => /\ last'.url \in DOMAIN clientStore'
       /\ heap'[clientStore'[last'.url]] = Stored(last'.url)

\* the call after it, without adminToken, sends what was stored before it, or
\* the environment token
C2_NextCall ==
    (/\ IsCall(last) /\ last.adminToken # ""
     /\ IsCall(last') /\ last'.url = last.url
     /\ last'.adminToken = "" /\ last'.calls = 1)
    => last'.sent = IF last.before \in ValidTokens THEN last.before
                    ELSE env.POCKETBASE_ADMIN_TOKEN

\* C2: an explicit adminToken overrides the credential for that one call only:
\* after a tool call with explicit adminToken on base URL u the token and
\* identity of the handle stored for u are what they were before the call, and
\* the next call on u without adminToken uses the previously stored session or
\* the environment token, never the earlier call's explicit token.
C2_ExplicitTokenThisCallOnly == [][C2_HandleKept /\ C2_NextCall]_vars

\* C2: a custom request with explicit token C has returned, the handle stored
\* for its URL held session token A before it and holds C now.
C2_HandleOverwritten ==
    /\ last.group = "custom" /\ last.adminToken = "C" /\ last.before = "A"
    /\ Stored(last.url).token = "C" /\ Stored(last.url).record = Null

\* no two keys of the store share a handle
C3_Injective ==
    \A u, v \in DOMAIN clientStore : u # v => clientStore[u] # clientStore[v]

\* an operation on one URL leaves the handle of every other URL as it was
C3_Frame ==
    \A v \in DOMAIN clientStore :
        v # last'.url =>
            /\ v \in DOMAIN clientStore'
            /\ clientStore'[v] = clientStore[v]
            /\ heap'[clientStore'[v]] = heap[clientStore[v]]

\* C3: multi-instance isolation: two base URLs whose normalized forms differ
\* are never mapped to the same handle, and no operation on one of them
\* (authenticate with saveSession, logout, calls with explicit or environment
\* token) changes the token or identity held by the handle of the other.
C3_Isolation == []C3_Injective /\ [][C3_Frame]_vars

\* C3: two URLs are stored, a logout has just cleared the session of one and
\* the other still holds its session token A.
C3_OtherSessionKept ==
    /\ last.op = "logout" /\ last.wasAuthenticated
    /\ \E v \in DOMAIN clientStore :
        /\ v # last.url
        /\ Stored(v).token = "A" /\ Stored(v).record # Null

\* a login with saveSession = false returns the token and changes nothing
C4_NotSaved ==
    (last'.op \in AuthTools /\ ~last'.saveSession) =>
        /\ UNCHANGED <<clientStore, heap>>
        /\ ~last'.sessionSaved
        /\ last'.code = "OK" => last'.token \in IssuedTokens

\* a successful login with saveSession = true stores the returned token and
\* identity under the normalized URL
C4_Saved ==
    (last'.op \in AuthTools /\ last'.saveSession /\ last'.code = "OK") =>
        /\ last'.sessionSaved
        /\ last'.url = normalizeUrl(last'.url)
        /\ last'.url \in DOMAIN clientStore'
        /\ heap'[clientStore'[last'.url]] =
              [baseUrl |-> last'.url, token |-> last'.token, record |-> last'.user]

\* the next call on that URL without explicit token sends the saved token
C4_NextCall ==
    (/\ last.op \in AuthTools /\ last.sessionSaved
     /\ IsCall(last') /\ last'.url = last.url
     /\ last'.adminToken = "" /\ last'.calls = 1)
    => last'.sent = last.token

\* C4: authenticate_admin / authenticate_user with saveSession=false return
\* the token without changing the session store or any stored handle; with
\* saveSession=true a successful login makes the returned token and identity
\* the stored credential of the normalized URL, and the next call on that URL
\* without explicit token uses it.
C4_SaveSession == [][C4_NotSaved /\ C4_Saved /\ C4_NextCall]_vars

\* C4: a user login with saveSession=false has returned its token while the
\* URL's stored administrator session is still in place.
C4_SessionUndisturbed ==
    /\ last.op = "authenticate_user" /\ ~last.saveSession /\ last.code = "OK"
    /\ last.token = "A"
    /\ last.url \in DOMAIN clientStore
    /\ Stored(last.url).record # Null
    /\ Stored(last.url).record["collectionName"] = SUPERUSERS_COLLECTION

\* the state a logout leaves: the handle of its URL is stored and empty
C5_Cleared ==
    last.op = "logout" =>
        /\ last.url \in DOMAIN clientStore
        /\ Stored(last.url).token = ""
        /\ Stored(last.url).record = Null
        /\ ~isAuthenticated(Stored(last.url))
        /\ getCurrentUser(Stored(last.url)) = Null
        /\ getToken(Stored(last.url)) = ""

\* a logout clears the handle that was stored, under the key it had, and
\* reports whether that handle was authenticated
C5_InPlace ==
    (last'.op = "logout" /\ last'.url \in DOMAIN clientStore) =>
        /\ clientStore' = clientStore
        /\ last'.wasAuthenticated = isAuthenticated(Stored(last'.url))
        /\ heap' = [heap EXCEPT ![clientStore[last'.url]] = NewPocketBase(last'.url)]

\* a second logout changes nothing and reports wasAuthenticated = false
C5_Idempotent ==
    (last.op = "logout" /\ last'.op = "logout" /\ last'.url = last.url) =>
        /\ UNCHANGED <<clientStore, heap>>
        /\ ~last'.wasAuthenticated

\* C5: logout clears state in place: after logout, whatever the credential
\* was, the handle's token is empty, isAuthenticated is false, getCurrentUser
\* and getToken are null; a second logout leaves the same state and reports
\* wasAuthenticated=false; the handle stays in the store under the same key.
C5_LogoutInPlace == []C5_Cleared /\ [][C5_InPlace /\ C5_Idempotent]_vars

\* C5: a logout has cleared a handle that held a login session.
C5_SessionCleared ==
    /\ last.op = "logout" /\ last.wasAuthenticated
    /\ last.url \in DOMAIN clientStore /\ Stored(last.url).token = ""

\* a base URL written with 0..MaxSlashes trailing slashes resolves to the
\* base, and normalizing twice is normalizing once
C6_SameString ==
    \A b \in Bases : \A k \in 0..MaxSlashes :
        /\ getPocketBaseUrl(b \o Slashes(k)) = b
        /\ normalizeUrl(normalizeUrl(b \o Slashes(k))) = normalizeUrl(b \o Slashes(k))
        /\ getPocketBaseUrl(getPocketBaseUrl(b \o Slashes(k))) = getPocketBaseUrl(b)

\* the keys of the store are normalized
C6_Keys == \A u \in DOMAIN clientStore : normalizeUrl(u) = u

\* a tool that calls getOrCreateClient on a stored URL, however written, finds
\* the stored handle: the store is as it was
C6_SameHandle ==
    (/\ \/ last'.op \in {"logout", "check_auth_status"}
        \/ last'.group \in {"record", "user", "custom"}
     /\ last'.url \in DOMAIN clientStore)
    => clientStore' = clientStore

\* what logout did through one spelling, check_auth_status sees through any
C6_Visible ==
    (last.op = "logout" /\ last'.op = "check_auth_status" /\ last'.url = last.url)
    => /\ ~last'.isAuthenticated
       /\ ~last'.hasToken
       /\ last'.user = Null

\* C6: resolve is idempotent on normalized URLs: getPocketBaseUrl returns the
\* same string for a URL written with 0, 1 or many trailing slashes,
\* normalizing twice equals normalizing once, repeated getOrCreateClient calls
\* with such URLs return the one stored handle without creating a second
\* entry, and a credential change made through it is seen by a later call.
C6_ResolveIdempotent ==
    [](C6_SameString /\ C6_Keys) /\ [][C6_SameHandle /\ C6_Visible]_vars

\* C6: a session saved for "h/" has been cleared by a logout given "h//", in
\* the one entry the store has for "h".
C6_ClearedThroughOtherSpelling ==
    /\ last.op = "logout" /\ last.wasAuthenticated
    /\ last.baseUrl = <<"h">> \o Slashes(MaxSlashes)
    /\ DOMAIN clientStore = {<<"h">>}

\* the identity a handle caches is one of a non-administrator
NonAdminIdentity(pb) ==
    /\ pb.record # Null
    /\ pb.record["collectionName"] # SUPERUSERS_COLLECTION
    /\ ~(Has(pb.record, "isAdmin") /\ pb.record["isAdmin"] = TRUE)

\* C7: non-admin rejection without network call: createCollection,
\* updateCollection and deleteCollection called through a handle whose cached
\* identity is a non-administrator fail with FORBIDDEN and issue no backend
\* call; the privilege check comes first, so the result is FORBIDDEN, not
\* VALIDATION_ERROR, also when the schema is invalid.  The same holds of the
\* create, update and delete tools that resolve to such a stored handle.
C7_NonAdminRejected ==
    /\ (last.group = "service" /\ NonAdminIdentity(Stored(last.url))) =>
          (last.code = "FORBIDDEN" /\ last.calls = 0 /\ last.sent = NoCall)
    /\ (/\ last.op \in {"create_collection", "update_collection", "delete_collection"}
        /\ last.adminToken = ""
        /\ last.url \in DOMAIN clientStore
        /\ isValid(Stored(last.url))
        /\ NonAdminIdentity(Stored(last.url))) =>
          (last.code = "FORBIDDEN" /\ last.calls = 0 /\ last.sent = NoCall)

\* C7: createCollection was called with an invalid schema through a handle
\* holding a non-administrator's session and was rejected as FORBIDDEN.
C7_InvalidSchemaForbidden ==
    /\ last.op = "createCollection" /\ ~last.valid
    /\ NonAdminIdentity(Stored(last.url)) /\ Stored(last.url).token = "A"
    /\ last.code = "FORBIDDEN" /\ last.calls = 0

\* C8: the administrator flag of a login identity is determined by the login
\* kind alone: a successful administrator login yields isAdmin=true and
\* verified=true, a successful application-user login yields isAdmin=false
\* whatever fields the backend's record has, and a session saved from a user
\* login never passes the client-side administrator gate.
C8_AdminFlagByLoginKind ==
    /\ (last.op = "authenticate_admin" /\ last.code = "OK") =>
          (last.user["isAdmin"] = TRUE /\ last.user["verified"] = TRUE)
    /\ (last.op = "authenticate_user" /\ last.code = "OK") =>
          last.user["isAdmin"] = FALSE
    /\ \A u \in DOMAIN clientStore :
          (Stored(u).record # Null
           /\ Stored(u).record["collectionName"] # SUPERUSERS_COLLECTION)
          => ~isAdminAuthenticated(Stored(u))

\* C8: createCollection, called through the session saved from a user login,
\* passed the administrator gate and reached the backend.
C8_UserSessionPassesGate ==
    /\ last.op = "createCollection" /\ last.calls = 1
    /\ Stored(last.url).record # Null
    /\ Stored(last.url).record["collectionName"] = "users"

\* C9: after logout(handle) a privileged call (collection create, update or
\* delete) through that same handle, with no fresh token, fails with an
\* authentication classification (AUTH_REQUIRED, AUTH_INVALID or
\* AUTH_EXPIRED), not with the FORBIDDEN of the client-side gate.
C9_AuthCodeAfterLogout ==
    [][(last.op = "logout" /\ last'.group = "service" /\ last'.url = last.url)
       => last'.code \in {"AUTH_REQUIRED", "AUTH_INVALID", "AUTH_EXPIRED"}]_vars

\* C9: deleteCollection was called through a stored handle that holds no
\* token and failed with FORBIDDEN before any backend call.
C9_ForbiddenOnClearedHandle ==
    /\ last.op = "deleteCollection" /\ Stored(last.url).token = ""
    /\ last.code = "FORBIDDEN" /\ last.calls = 0

\* the code of the first row of a decision table whose condition holds
FirstMatch(rows) ==
    rows[CHOOSE i \in 1..Len(rows) :
            rows[i][1] /\ \A j \in 1..(i - 1) : ~rows[j][1]][2]

\* the message of an error object contains one of the words
Says(e, words) == e.kind = "object" /\ e.message \cap words # {}

\* the rows of the decision table all readings share: network, rate limit,
\* not found
TableHead(e) ==
    << <<e.kind # "object", "UNKNOWN_ERROR">>,
       <<e.code = "NETWORK_ERROR" \/ Says(e, NetworkWords), "NETWORK_ERROR">>,
       <<e.status = 429 \/ e.code = "RATE_LIMITED" \/ Says(e, RateLimitWords),
         "RATE_LIMITED">>,
       <<e.status = 404 \/ e.code = "NOT_FOUND" \/ Says(e, NotFoundWords),
         "NOT_FOUND">> >>

\* the auth indicators: status 401 or 403, one of the four auth codes, or an
\* auth word in the message
AuthIndicator(e) ==
    \/ e.status \in {401, 403}
    \/ e.code \in {"AUTH_REQUIRED", "AUTH_INVALID", "AUTH_EXPIRED", "FORBIDDEN"}
    \/ Says(e, AuthWords)

\* the rows for the auth indicators, 5xx and the fallback
TableTail(e) ==
    << <<AuthIndicator(e) /\ Says(e, AuthRequiredWords), "AUTH_REQUIRED">>,
       <<AuthIndicator(e), "AUTH_INVALID">>,
       <<e.status >= 500, "SERVER_ERROR">>,
       <<TRUE, "UNKNOWN_ERROR">> >>

\* the table as stated: validation is a 400 with a field payload, and an auth
\* indicator gives FORBIDDEN, AUTH_REQUIRED or AUTH_INVALID
StatedTable(e) ==
    FirstMatch(
        TableHead(e)
        \o << <<e.status = 400 /\ e.data, "VALIDATION_ERROR">>,
              <<e.status = 403 \/ e.code = "FORBIDDEN", "FORBIDDEN">> >>
        \o TableTail(e))

\* the table with the rows the code has besides: validation also by code
\* VALIDATION_ERROR or by a response payload, whatever the status, and code
\* AUTH_EXPIRED kept as AUTH_EXPIRED
AmendedTable(e) ==
    FirstMatch(
        TableHead(e)
        \o << <<(e.status = 400 /\ e.data) \/ e.code = "VALIDATION_ERROR" \/ e.respData,
                "VALIDATION_ERROR">>,
              <<e.status = 403 \/ e.code = "FORBIDDEN", "FORBIDDEN">>,
              <<e.code = "AUTH_EXPIRED", "AUTH_EXPIRED">> >>
        \o TableTail(e))

\* C10: getErrorCode classifies an error by first match in the fixed order:
\* network indicators, rate-limit, not-found, validation shape (400 with a
\* field payload), auth indicators (403 or code FORBIDDEN gives FORBIDDEN,
\* otherwise AUTH_REQUIRED when the message says authentication is required
\* or not authenticated, else AUTH_INVALID), status >= 500 gives
\* SERVER_ERROR, else UNKNOWN_ERROR, for every combination of status, code,
\* message class and payload presence.
C10_StatedTable ==
    last.op = "getErrorCode" => last.code = StatedTable(last.error)

\* C10, amended: the same order, where the validation row also matches the
\* code VALIDATION_ERROR and a response payload of any status, and where,
\* among the auth indicators, code AUTH_EXPIRED gives AUTH_EXPIRED after the
\* FORBIDDEN row and before the message is read.
C10_AmendedTable ==
    last.op = "getErrorCode" => last.code = AmendedTable(last.error)

\* C10: a 401 with code AUTH_EXPIRED whose message says "authentication
\* required" was classified AUTH_EXPIRED.
C10_ExpiredClassified ==
    /\ last.op = "getErrorCode"
    /\ last.error.status = 401 /\ last.error.code = "AUTH_EXPIRED"
    /\ "authentication required" \in last.error.message
    /\ ~last.error.data /\ ~last.error.respData
    /\ last.code = "AUTH_EXPIRED"

\* the error is an object that has just been classified
Classified == last.op = "getErrorCode" /\ last.error.kind = "object"

\* the code or the message of the error has an indicator one of the
\* classifier's tests looks for
HasIndicator(e) ==
    \/ e.code \in {"NETWORK_ERROR", "RATE_LIMITED", "NOT_FOUND", "VALIDATION_ERROR",
                   "AUTH_REQUIRED", "AUTH_INVALID", "AUTH_EXPIRED", "FORBIDDEN"}
    \/ Says(e, NetworkWords \cup RateLimitWords \cup NotFoundWords \cup AuthWords)

\* C11: error classification totality: for every error object whose status is
\* one of 400, 401, 403, 404, 429, 500 (a 400 with or without a field
\* payload, any message) the classifier returns one of the nine codes other
\* than UNKNOWN_ERROR.
C11_Totality ==
    (Classified /\ last.error.status \in {400, 401, 403, 404, 429, 500})
    => last.code # "UNKNOWN_ERROR"

\* C11, amended: for every error object whose status is one of 401, 403, 404,
\* 429, 500, or is 400 with a field payload, the classifier returns one of
\* the nine codes other than UNKNOWN_ERROR; a 400 with no payload and no
\* indicator in its code or message is UNKNOWN_ERROR.
C11_TotalityButBare400 ==
    /\ (Classified /\ last.error.status \in {401, 403, 404, 429, 500})
       => last.code \in ErrorCode \ {"UNKNOWN_ERROR"}
    /\ (Classified /\ last.error.status = 400 /\ (last.error.data \/ last.error.respData))
       => last.code \in ErrorCode \ {"UNKNOWN_ERROR"}
    /\ (Classified /\ last.error.status = 400
        /\ ~last.error.data /\ ~last.error.respData /\ ~HasIndicator(last.error))
       => last.code = "UNKNOWN_ERROR"

\* C11: a 400 with a message, no payload and no code was classified
\* UNKNOWN_ERROR.
C11_Bare400Unknown ==
    /\ Classified /\ last.error.status = 400
    /\ last.error.code = NoCode /\ last.error.message = {AnyChar}
    /\ ~last.error.data /\ ~last.error.respData
    /\ last.code = "UNKNOWN_ERROR"

\* the error is an object {status, message} and nothing else
StatusAndMessage(e) ==
    e.kind = "object" /\ e.code = NoCode /\ ~e.data /\ ~e.respData

C13_SuggestionOfCode ==
    last.op = "getErrorCode" =>
        LET code == last.envelope.code
            suggestion == last.envelope.suggestion
        IN  /\ (suggestion = "check-running") <=> (code = "NETWORK_ERROR")
            /\ (suggestion \in {"authenticate-first", "no-permission", "check-credentials"})
                  <=> (code \in {"AUTH_REQUIRED", "AUTH_INVALID", "AUTH_EXPIRED", "FORBIDDEN"})
            /\ (suggestion = "check-fields") <=> (code = "VALIDATION_ERROR")
            /\ (suggestion = "verify-exists") <=> (code = "NOT_FOUND")
            /\ (suggestion = "wait") <=> (code = "RATE_LIMITED")

\* C13: a 429 whose message mentions a token got the code RATE_LIMITED and
\* the suggestion to check the credentials.
C13_RateLimitedToldCredentials ==
    /\ last.op = "getErrorCode" /\ StatusAndMessage(last.error)
    /\ last.error.status = 429 /\ last.error.message = {AnyChar, "token"}
    /\ last.envelope.code = "RATE_LIMITED"
    /\ last.envelope.suggestion = "check-credentials"

\* the error has a message of its own: it is a string, or an object with a
\* message or a response.message
HasOriginalMessage(e) ==
    \/ e.kind = "string"
    \/ e.kind = "object" /\ (e.message # {} \/ e.respMessage)

\* C14: for any input (null, undefined, a string, an Error, a backend error
\* object with or without message) handleError returns an envelope with
\* success=false, a code of the fixed ten and a non-empty error string: the
\* original message when there is one, otherwise the canned message of the
\* envelope's code; with a context, the error string contains the context.
C14_EnvelopeShape ==
    last.op = "getErrorCode" =>
        LET e == last.error
            text == last.envelope.error.text
        IN  /\ last.envelope.success = FALSE
            /\ last.envelope.code \in ErrorCode
            /\ last.envelope.code = last.code
            /\ text.chars # "" \/ text.words # {}
            /\ last.envelope.error.context = last.context
            /\ HasOriginalMessage(e) => (text.chars = "" /\ AnyChar \in text.words)
            /\ (e.kind = "object" /\ e.message # {}) => text.words = e.message
            /\ ~HasOriginalMessage(e) =>
                  /\ text.words = {} /\ text.chars # ""
                  /\ text = CannedMessage(last.envelope.code, DefaultMessage)
                  /\ (text = DefaultMessage) <=> (last.envelope.code = "UNKNOWN_ERROR")

\* C14: a 500 with no message, handled with a context, got the canned message
\* of SERVER_ERROR after the context.
C14_CannedAfterContext ==
    /\ last.op = "getErrorCode" /\ StatusAndMessage(last.error)
    /\ last.error.status = 500 /\ last.error.message = {} /\ ~last.error.respMessage
    /\ last.context = "Failed"
    /\ last.envelope.error =
          [context |-> "Failed", text |-> Literal("PocketBase server encountered an error")]

\* a create_collection or update_collection call whose credential passed the
\* administrator gate, given a schema that validation rejects
InvalidSchemaCall ==
    /\ last.op \in {"create_collection", "update_collection"}
    /\ last.violations # <<>>
    /\ last.code \notin {"FORBIDDEN", "AUTH_INVALID"}

\* C15: a create_collection or update_collection tool call with an invalid
\* schema returns one envelope with code VALIDATION_ERROR whose details.fields
\* lists every violation found, and no backend call is made.
C15_ViolationsReturned ==
    InvalidSchemaCall =>
        /\ last.code = "VALIDATION_ERROR"
        /\ last.details = "fields"
        /\ last.calls = 0

\* C15: create_collection, given a schema with three violations by an
\* administrator, returned VALIDATION_ERROR without details and without a
\* backend call.
C15_ViolationsDropped ==
    /\ last.op = "create_collection" /\ Len(last.violations) = 3
    /\ last.code = "VALIDATION_ERROR" /\ last.details = "none" /\ last.calls = 0

\* the rules a collection name breaks
NameViolations(name) ==
    IF name = <<>> THEN {FieldError(<<"name">>, "required")}
    ELSE {FieldError(<<"name">>, c) : c \in
            {c \in {"min_length", "max_length", "invalid_format", "reserved"} :
                \/ c = "min_length" /\ Len(name) < MinNameLen
                \/ c = "max_length" /\ Len(name) > MaxNameLen
                \/ c = "invalid_format" /\ ~IsIdentifier(name)
                \/ c = "reserved" /\ name \in RESERVED_COLLECTION_NAMES}}

\* the rules the field at position i (from 1) of fields breaks
FieldViolations(fields, i) ==
    LET f == fields[i] IN
    {e \in {FieldError(<<"schema", i - 1, p>>, c) :
                p \in {"name", "type", "required"},
                c \in {"required", "invalid_format", "invalid_type", "duplicate"}} :
        \/ e.field[3] = "name" /\ e.code = "required" /\ f.name = <<>>
        \/ e.field[3] = "name" /\ e.code = "invalid_format"
            /\ f.name # <<>> /\ ~IsIdentifier(f.name)
        \/ e.field[3] = "name" /\ e.code = "duplicate"
            /\ f.name # <<>> /\ \E j \in 1..(i - 1) : fields[j].name = f.name
        \/ e.field[3] = "type" /\ e.code = "required" /\ f.type = ""
        \/ e.field[3] = "type" /\ e.code = "invalid_type"
            /\ f.type # "" /\ f.type \notin VALID_FIELD_TYPES
        \/ e.field[3] = "required" /\ e.code = "invalid_type"
            /\ f.required \notin {"true", "false"}}

\* every rule a non-view schema breaks
Violations(schema) ==
    NameViolations(schema.name)
    \cup (IF schema.type \notin {"base", "auth", "view"}
          THEN {FieldError(<<"type">>, "invalid_type")} ELSE {})
    \cup (IF ~schema.isArray THEN {FieldError(<<"schema">>, "required")}
          ELSE UNION {FieldViolations(schema.fields, i) :
                        i \in 1..Len(schema.fields)})

Entries(errors) == {errors[i] : i \in 1..Len(errors)}

\* C16: for a non-view schema that breaks N rules, validateCollectionSchema
\* returns N distinct entries, one for each rule broken, in one pass; for a
\* schema that breaks none it returns the empty list.
C16_EveryViolationOnce ==
    (last.op = "validateCollectionSchema" /\ last.schema.type # "view") =>
        /\ Entries(last.errors) = Violations(last.schema)
        /\ Len(last.errors) = Cardinality(Violations(last.schema))
        /\ (Violations(last.schema) = {} <=> last.errors = <<>>)

\* C16: a schema with an invalid name, a disallowed field type, a non-boolean
\* required flag and a repeated field name was validated, and the four
\* entries were returned.
C16_FourViolationsFour ==
    /\ last.op = "validateCollectionSchema"
    /\ last.schema.type = "base"
    /\ Len(last.errors) = 4
    /\ Entries(last.errors) =
        {FieldError(<<"name">>, "invalid_format"),
         FieldError(<<"schema", 0, "type">>, "invalid_type"),
         FieldError(<<"schema", 0, "required">>, "invalid_type"),
         FieldError(<<"schema", 1, "name">>, "duplicate")}

\* C17: a login failure with status 400 or 401 is raised as AUTH_INVALID with
\* the backend's message ("Invalid credentials" when it is empty); any other
\* failure whose message mentions a transport or connectivity failure is
\* raised as NETWORK_ERROR; every remaining failure is raised as AUTH_ERROR
\* wrapping the original cause.
C17_FailureClasses ==
    (last.op = "createAuthError") =>
        LET e == last.error
            r == last.raised
        IN  IF isObject(e) /\ e.status \in {400, 401}
            THEN /\ r.code = "AUTH_INVALID"
                 /\ r.message = (IF e.message # {} THEN e.message
                                 ELSE {AnyChar, "invalid credentials"})
            ELSE IF Says(e, NetworkWords)
            THEN r.code = "NETWORK_ERROR"
            ELSE r.code = "AUTH_ERROR" /\ r.originalError = e

\* C17: a failure without status whose message says ECONNREFUSED, and neither
\* "fetch" nor "network", was raised as AUTH_ERROR.
C17_RefusedConnectionAuthError ==
    /\ last.op = "createAuthError"
    /\ last.error.status = NoStatus
    /\ last.error.message = {AnyChar, "econnrefused"}
    /\ last.raised.code = "AUTH_ERROR"

\* C18: the startup login is attempted at most once, and only when email and
\* password are configured and no token is; a configured token is never
\* overwritten; on success the token obtained becomes the environment token;
\* on failure the environment token stays unset, the failure is logged and
\* the process does not exit; in every case the tools get registered and the
\* server is ready.
C18_StartupLogin ==
    /\ [](last.attempts <= 1)
    /\ [][last'.attempts > last.attempts =>
            /\ env.POCKETBASE_ADMIN_EMAIL # ""
            /\ env.POCKETBASE_ADMIN_PASSWORD # ""
            /\ env.POCKETBASE_ADMIN_TOKEN = ""]_vars
    /\ [][env.POCKETBASE_ADMIN_TOKEN # "" =>
            env'.POCKETBASE_ADMIN_TOKEN = env.POCKETBASE_ADMIN_TOKEN]_vars
    /\ [](last.outcome = "success" =>
            last.token # "" /\ env.POCKETBASE_ADMIN_TOKEN = last.token)
    /\ [](last.outcome = "failure" =>
            /\ env.POCKETBASE_ADMIN_TOKEN = ""
            /\ "failed" \in last.log
            /\ ~last.exited)
    /\ <>(last.op = "ready" /\ last.registered /\ ~last.exited)

\* C18: the one login request of the startup failed, the environment token is
\* unset, and the tools are registered.
C18_FailedLoginServerReady ==
    /\ last.op = "ready" /\ last.outcome = "failure" /\ last.attempts = 1
    /\ env.POCKETBASE_ADMIN_TOKEN = ""
    /\ last.registered

Reads == {"getRecord", "getFirstRecord", "getUser", "get_record"}

\* the caller was handed an error envelope: thrown by a service operation,
\* returned by a tool
HandedEnvelope(l) ==
    /\ l.result # Null
    /\ l.result.success = FALSE
    /\ l.result.code \in ErrorCode
    /\ l.threw <=> (l.group = "service")

C20_FieldsVerbatim ==
    (last.op \in Reads /\ last.resp.ok) =>
        LET item == last.result.item
            record == last.resp.record
        IN  /\ {"id", "collectionId", "collectionName", "created", "updated"}
                    \subseteq DOMAIN item
            /\ \A k \in DOMAIN record : k \in DOMAIN item /\ item[k] = record[k]

\* C20: getUser was answered a record with expanded relations, and the user
\* it returned has no expand.
C20_UserExpandDropped ==
    /\ last.op = "getUser" /\ last.resp.ok
    /\ DOMAIN last.resp.record =
        {"id", "collectionId", "collectionName", "created", "updated", "expand"}
    /\ "expand" \notin DOMAIN last.result.item

FieldNamesOf(fields) == {fields[i].name : i \in 1..Len(fields)}

\* C21: for any schema that passes validation, createCollection followed by
\* getCollection returns the same name, the same type and the same set of
\* field names; after deleteCollection, getCollection of that name fails with
\* NOT_FOUND, at the service and at the tool surface.
C21_RoundTrip ==
    [][/\ (/\ last.op = "createCollection"
           /\ validateCollectionSchema(last.schema) = <<>>
           /\ last.fresh
           /\ last'.op = "getCollection" /\ last'.name = last.name)
          => /\ last'.code = "OK"
             /\ last'.collection.name = last.schema.name
             /\ last'.collection.type = last.schema.type
             /\ FieldNamesOf(last'.collection.schema)
                    = FieldNamesOf(last.schema.fields)
       /\ (/\ last.op = "deleteCollection" /\ last.code = "OK"
           /\ last'.op = "getCollection" /\ last'.name = last.name)
          => last'.code = "NOT_FOUND"]_vars

\* C21: a view schema without a field list passed validation, and
\* createCollection failed with UNKNOWN_ERROR and created nothing.
C21_ViewNotCreated ==
    /\ last.op = "createCollection"
    /\ validateCollectionSchema(last.schema) = <<>>
    /\ last.fresh
    /\ last.code = "UNKNOWN_ERROR" /\ last.calls = 0
    /\ last.name \notin DOMAIN last.backend

\* the error getFileUrl raises by itself for a bad record or a bad filename
RecordError == createFileError("FILE_OPERATION_FAILED", "Invalid record")

FilenameError == createFileError("FILE_NOT_FOUND", "Filename is required")

\* a filename that is no string, or is empty once trimmed
BadFilename(v) ==
    \/ v.kind # "string"
    \/ \A i \in 1..Len(v.chars) : v.chars[i] = SPACE

\* C22: getFileUrl builds a URL only when the record carries id and
\* collectionId and the filename is a string that is not empty once trimmed;
\* a bad record raises FILE_OPERATION_FAILED, checked first, a bad filename
\* FILE_NOT_FOUND; getFieldFileUrls and getAllFileUrls raise such an error as
\* getFileUrl raised it, with its file-specific code.
C22_FileErrors ==
    /\ (last.op = "getFileUrl") =>
        IF InvalidRecord(last.record)
        THEN last.threw /\ last.error = RecordError /\ last.built = 0
        ELSE IF BadFilename(last.filename)
        THEN last.threw /\ last.error = FilenameError /\ last.built = 0
        ELSE ~last.threw /\ last.built = 1
    /\ (last.op \in {"getFieldFileUrls", "getAllFileUrls", "getAllFileUrls(named)"}) =>
        /\ InvalidRecord(last.record) => last.threw /\ last.error = RecordError
        /\ last.threw =>
            /\ last.error.code \in FileErrorType
            /\ last.error.code = "FILE_NOT_FOUND" => last.error = FilenameError
            /\ last.error.code = "FILE_OPERATION_FAILED" => last.error = RecordError
        /\ (~InvalidRecord(last.record) /\ last.record.f.kind = "array"
            /\ \E i \in 1..Len(last.record.f.items) :
                    BadFilename(last.record.f.items[i])
            /\ last.op = "getFieldFileUrls")
           => last.threw /\ last.error = FilenameError

\* C22: getFieldFileUrls built the URL of the first file of a field, met a
\* blank filename next, and raised getFileUrl's FILE_NOT_FOUND unchanged.
C22_BlankFilenameRaised ==
    /\ last.op = "getFieldFileUrls"
    /\ last.threw /\ last.built = 1
    /\ last.error = FilenameError
    /\ last.record.f.items[2] = Str(<<SPACE, SPACE>>)

\* C23: when listCollections has normalized a backend failure and the tool
\* normalizes what it caught again, the envelope returned to the caller has
\* the code, the error message and the details of the service's envelope.
C23_SameEnvelope ==
    (last.op = "list_collections") =>
        /\ last.envelope.code = last.service.code
        /\ last.envelope.error = last.service.error
        /\ last.envelope.details = last.service.details

\* C23: the backend answered 500 with a payload; the service's envelope says
\* SERVER_ERROR with the payload as details, the tool's says UNKNOWN_ERROR
\* with no details and the default message.
C23_ServerErrorBecameUnknown ==
    /\ last.op = "list_collections"
    /\ last.error.status = 500 /\ last.error.data
    /\ last.service.code = "SERVER_ERROR" /\ last.service.details = "data"
    /\ last.envelope.code = "UNKNOWN_ERROR" /\ last.envelope.details = "none"
    /\ last.envelope.error = [context |-> NoContext, text |-> DefaultMessage]

\* C24: a record, user, custom-request or collection call made without
\* explicit token leaves a stored session that is as logout left it
\* unauthenticated: check_auth_status on it goes on reporting
\* isAuthenticated = false and user = null.
C24_LoggedOutKept ==
    [][\A u \in DOMAIN clientStore :
        (/\ Stored(u) = logout(Stored(u))
         /\ IsCall(last') /\ last'.adminToken = "")
        => /\ u \in DOMAIN clientStore'
           /\ ~getAuthStatus(heap'[clientStore'[u]]).isAuthenticated
           /\ getAuthStatus(heap'[clientStore'[u]]).user = Null]_vars

\* C24: a record-group call without explicit token found the stored session
\* of its URL without token and left the environment's token in it, so that
\* the session reports isAuthenticated = true.
C24_EnvTokenStored ==
    /\ IsCall(last) /\ last.group # "collection"
    /\ last.adminToken = "" /\ last.before = ""
    /\ env.POCKETBASE_ADMIN_TOKEN # ""
    /\ last.url \in DOMAIN clientStore
    /\ Stored(last.url).token = env.POCKETBASE_ADMIN_TOKEN
    /\ getAuthStatus(Stored(last.url)).isAuthenticated

\* C25: a bearer token issued by a login at one backend instance is attached
\* only to backend calls addressed to that instance.
C25_TokenStaysHome ==
    (IsCall(last) /\ last.sent \in InstanceTokens) => last.sent = TokenOf(last.url)

\* C25: the startup login at the environment's instance left its token in
\* the environment, and a call addressed to the other instance carried it.
C25_StartupTokenAbroad ==
    /\ IsCall(last) /\ last.adminToken = ""
    /\ last.url # getPocketBaseUrl(env.POCKETBASE_URL)
    /\ last.sent = TokenOf(getPocketBaseUrl(env.POCKETBASE_URL))
    /\ last.sent = env.POCKETBASE_ADMIN_TOKEN

\* the token the credential precedence selects for a call on the shared URL
\* that names adminToken: the explicit token, else the stored token when it
\* is valid, else the environment's, else what the handle holds
Selected(adminToken) ==
    IF adminToken # "" THEN adminToken
    ELSE IF SharedUrl \in DOMAIN clientStore /\ isValid(Stored(SharedUrl))
    THEN Stored(SharedUrl).token
    ELSE IF env.POCKETBASE_ADMIN_TOKEN # "" THEN env.POCKETBASE_ADMIN_TOKEN
    ELSE StoredToken(SharedUrl)

C27_LogoutHolds ==
    [][(/\ last'.group = "auth"
        /\ SharedUrl \in DOMAIN clientStore
        /\ ~isAuthenticated(Stored(SharedUrl))
        /\ isAuthenticated(heap'[clientStore'[SharedUrl]]))
       => (last'.op = "authenticate_admin:saved" /\ last'.id \notin last.stale)]_vars

\* C27: an authenticate_admin that was awaiting its answer when logout ran
\* has returned and the stored session is authenticated.
C27_StaleLoginSaved ==
    /\ last.op = "authenticate_admin:saved"
    /\ last.id \in last.stale
    /\ isAuthenticated(Stored(SharedUrl))
    /\ Stored(SharedUrl).token = "A"

\* the administrator gate made the operation throw: FORBIDDEN without a
\* backend request
GateExit(l) == l.code = "FORBIDDEN" /\ l.calls = 0

\* C28: the administrator gate of createCollection, updateCollection and
\* deleteCollection exits with FORBIDDEN only for a handle whose cached
\* identity is a non-administrator's; a handle that holds a token and no
\* identity passes the gate, and what passes validation is sent to the
\* backend.
C28_GateOnlyNonAdmin ==
    (last.group = "service") =>
        /\ GateExit(last) => NonAdminIdentity(Stored(last.url))
        /\ (Stored(last.url).token # "" /\ Stored(last.url).record = Null) =>
              (~GateExit(last) /\ (last.valid => last.calls = 1))

\* C28: deleteCollection through a stored handle that holds no token and no
\* identity was stopped at the gate.
C28_TokenlessHandleRejected ==
    /\ last.op = "deleteCollection"
    /\ Stored(last.url).token = "" /\ Stored(last.url).record = Null
    /\ GateExit(last)

\* C29: createCollection of a view-type schema with a valid name and a query
\* sends one create that carries the query and no field list, whether or
\* not the schema has a field list; without a query it fails with
\* VALIDATION_ERROR, an entry for options.query among its violations, and no
\* backend request.
C29_ViewSchemas ==
    (last.op = "createCollection" /\ last.schema.type = "view") =>
        IF last.schema.query
        THEN /\ last.calls = 1
             /\ last.fresh =>
                   /\ last.code = "OK"
                   /\ last.backend[last.name].viewQuery = "q"
                   /\ ~last.backend[last.name].hasFields
        ELSE /\ last.code = "VALIDATION_ERROR"
             /\ last.calls = 0
             /\ \E i \in DOMAIN validateCollectionSchema(last.schema) :
                    validateCollectionSchema(last.schema)[i]
                        = FieldError(<<"options.query">>, "required")

\* C29: the service was given a view-type schema with a query and no field
\* list under a name the backend does not hold; it sent nothing and failed
\* with UNKNOWN_ERROR.
C29_ViewWithoutFieldList ==
    /\ last.op = "createCollection" /\ last.group = "service"
    /\ last.schema.type = "view" /\ last.schema.query /\ ~last.schema.isArray
    /\ last.fresh /\ last.calls = 0
    /\ last.code = "UNKNOWN_ERROR"

\* l records an authenticate_admin or authenticate_user that failed
FailedLogin(l) == l.op \in AuthTools /\ l.code # "OK"

\* C30: a failed authenticate_admin or authenticate_user leaves the session
\* store as it was, also with saveSession set: no entry is added or
\* replaced, and a valid session stored for the URL is the credential of the
\* next call on it that names no token.
C30_FailedLoginKeepsStore ==
    [][/\ FailedLogin(last') => (clientStore' = clientStore /\ heap' = heap)
       /\ (/\ FailedLogin(last)
           /\ last.url \in DOMAIN clientStore /\ isValid(Stored(last.url))
           /\ IsCall(last') /\ last'.url = last.url /\ last'.adminToken = ""
           /\ last'.calls = 1)
          => last'.sent = Stored(last.url).token]_vars

\* C30: a login with saveSession set failed because the backend could not be
\* reached, and the store holds the session saved before it.
C30_UnreachableSessionKept ==
    /\ FailedLogin(last) /\ last.saveSession /\ last.code = "NETWORK_ERROR"
    /\ last.url \in DOMAIN clientStore
    /\ Stored(last.url).token = "A" /\ Stored(last.url).record # Null

====
